---- MODULE Spec2Model ----
(***************************************************************************)
(* Verification model of confetti-cms/timeline.                            *)
(*                                                                         *)
(*  - the connection registry (TimelineConnectionManager): goroutines     *)
(*    stepping through GetOrCreateConnection, CloseConnection and          *)
(*    CloseAllConnections under one sync.RWMutex;                          *)
(*  - the schema writer (Writer.Write) with the type lattice               *)
(*    (duckDbTypeFromInput, ColumnType.PromoteTo) against one table of     *)
(*    the store.                                                           *)
(***************************************************************************)
EXTENDS Integers, Sequences, FiniteSets, TLC

VARIABLES
    \* ---- connection registry ----
    connections,   \* m.connections: path -> writer id (a Go map: partial)
    mutexW,        \* goroutine holding m.mutex for writing, or NoProc
    readers,       \* goroutines holding m.mutex for reading
    pc,            \* position of every goroutine inside its registry call
    arg,           \* dbPath argument of the call in progress
    result,        \* last (writer, error) returned by GetOrCreateConnection
    nextId,        \* identity of the next *Writer that NewStorageClient makes
    closedW,       \* writers on which Close() has been called
    ncalls,        \* registry calls started so far
    \* ---- observation of the registry (history) ----
    returned,      \* (path, writer) pairs handed to callers without error
    opens,         \* path -> number of writers opened for it
    deletes,       \* path -> number of times its entry was deleted
    attempts,      \* path -> number of creation attempts (MkdirAll calls)
    \* ---- schema writer and store ----
    schema,        \* columns of the table in the store: name -> ColumnType
    nrows,         \* rows in the table
    last,          \* record of the last Write call (its inputs and effects)
    left,          \* column -> types the column has had and left
    table,         \* the rows of the table, when the model tracks them
    wr             \* concurrent Write calls: each goroutine's locals

vars == <<connections, mutexW, readers, pc, arg, result, nextId, closedW,
          ncalls, returned, opens, deletes, attempts,
          schema, nrows, last, left, table, wr>>

regVars == <<connections, mutexW, readers, pc, arg, result, nextId, closedW,
             ncalls, returned, opens, deletes, attempts>>

writeVars == <<schema, nrows, last, left, table, wr>>

----------------------------------------------------------------------------
(* Bounds *)

NumProcs == 2
NumPaths == 2
MaxCalls == 3
NumWriters == 2

Procs == 1..NumProcs
Paths == 1..NumPaths
\* the goroutines that call Write at the same time
Writers == 1..NumWriters

NoProc == 0
NoWriter == 0
NoPath == 0
\* the contents of the table: tracked row by row, or counted by nrows only
TableUntracked == [tracked |-> FALSE]
TableOf(rows) == [tracked |-> TRUE, rows |-> rows]

EmptyMap == [x \in {} |-> 0]

\* the locals of a goroutine that is not in Write: its position, the row it
\* was given, the flattened row, its map existingCols, the keys its range
\* loop has not visited yet, the statements it sent and whether it returned
\* an error
WriterIdle ==
    [pc |-> "idle", row |-> EmptyMap, flat |-> EmptyMap, cols |-> EmptyMap,
     todo |-> {}, stmts |-> <<>>, err |-> FALSE]

\* Go map helpers
MapDelete(m, k) == [x \in (DOMAIN m) \ {k} |-> m[x]]
MapPut(m, k, v) == [x \in (DOMAIN m) \cup {k} |-> IF x = k THEN v ELSE m[x]]
MapValues(m) == {m[x] : x \in DOMAIN m}

----------------------------------------------------------------------------
(* Connection registry: TimelineConnectionManager *)

\* the lookup `writer, exists := m.connections[dbPath]`
ConnExists(conns, path) == path \in DOMAIN conns

\* the second lookup, made under the write lock
DoubleCheckSkipped(conns, path) == FALSE
DoubleCheck(conns, path) == ConnExists(conns, path)

\* m.connections[dbPath] = writer
StoreDropped(conns, path, w) == conns
StoreConnection(conns, path, w) == MapPut(conns, path, w)

\* the two error returns of GetOrCreateConnection leave the map alone
FailedCreateStoresNil(conns, path) == MapPut(conns, path, NoWriter)
FailedCreate(conns, path) == conns

\* CloseConnection: writer.Close() on the entry found
CC_CloseSkipped(closed, w) == closed
CC_Close(closed, w) == closed \cup {w}

\* CloseConnection: delete(m.connections, dbPath)
CC_DeleteAll(conns, path) == EmptyMap
CC_DeleteSkipped(conns, path) == conns
CC_Delete(conns, path) == MapDelete(conns, path)

\* CloseAllConnections: writer.Close() inside the range loop
CA_Close(closed, w) == closed \cup {w}

\* CloseAllConnections: delete(m.connections, dbPath) inside the range loop
CA_DeleteSkipped(conns, path) == conns
CA_Delete(conns, path) == MapDelete(conns, path)

\* defer m.mutex.Unlock(): runs on every return of the function that holds
\* the write lock, whether it returns an error or not
UnlockUnlessError(holder, err) == IF err THEN holder ELSE NoProc
DeferredUnlock(holder, err) == NoProc

\* CloseAllConnections: the range loop over the entries (keys: entries not
\* yet visited); yields the map and the closed writers after the loop
RECURSIVE CloseAllLoop(_, _, _)
CloseAllLoop(conns, keys, closed) ==
    IF keys = {} THEN [conns |-> conns, closed |-> closed]
    ELSE LET k == CHOOSE x \in keys : TRUE
         IN CloseAllLoop(CA_Delete(conns, k), keys \ {k},
                         CA_Close(closed, conns[k]))

Inc(f, k) == [f EXCEPT ![k] = @ + 1]

\* what a completed call left behind: for GetOrCreateConnection the writer
\* and error returned, for CloseConnection the writer it closed, for
\* CloseAllConnections the number of entries it found
NoResult == [op |-> "none", path |-> NoPath, w |-> NoWriter, err |-> FALSE, n |-> 0]
GetResult(path, w, err) ==
    [op |-> "get", path |-> path, w |-> w, err |-> err, n |-> 0]
CloseResult(path, w) ==
    [op |-> "close", path |-> path, w |-> w, err |-> FALSE, n |-> 0]
CloseAllResult(n) ==
    [op |-> "closeall", path |-> NoPath, w |-> NoWriter, err |-> FALSE, n |-> n]

RegInit ==
    /\ connections = EmptyMap
    /\ mutexW = NoProc
    /\ readers = {}
    /\ pc = [p \in Procs |-> "idle"]
    /\ arg = [p \in Procs |-> NoPath]
    /\ result = [p \in Procs |-> NoResult]
    /\ nextId = 1
    /\ closedW = {}
    /\ ncalls = 0
    /\ returned = {}
    /\ opens = [q \in Paths |-> 0]
    /\ deletes = [q \in Paths |-> 0]
    /\ attempts = [q \in Paths |-> 0]
    \* the store side is not touched by the registry
    /\ schema = EmptyMap
    /\ nrows = 0
    /\ last = [kind |-> "none"]
    /\ left = EmptyMap
    /\ table = TableUntracked
    /\ wr = [p \in Writers |-> WriterIdle]

\* a goroutine calls GetOrCreateConnection(path)
CallGetOrCreate(p, path) ==
    /\ pc[p] = "idle"
    /\ ncalls < MaxCalls
    /\ pc' = [pc EXCEPT ![p] = "g_rlock"]
    /\ arg' = [arg EXCEPT ![p] = path]
    /\ ncalls' = ncalls + 1
    /\ UNCHANGED <<connections, mutexW, readers, result, nextId, closedW,
                   returned, opens, deletes, attempts>>
    /\ UNCHANGED writeVars

\* m.mutex.RLock()
G_RLock(p) ==
    /\ pc[p] = "g_rlock"
    /\ mutexW = NoProc
    /\ readers' = readers \cup {p}
    /\ pc' = [pc EXCEPT ![p] = "g_fast"]
    /\ UNCHANGED <<connections, mutexW, arg, result, nextId, closedW, ncalls,
                   returned, opens, deletes, attempts>>
    /\ UNCHANGED writeVars

\* the reader path: look the path up, RUnlock, return the writer on a hit
G_FastPath(p) ==
    /\ pc[p] = "g_fast"
    /\ readers' = readers \ {p}
    /\ IF ConnExists(connections, arg[p])
       THEN /\ result' = [result EXCEPT ![p] =
                    GetResult(arg[p], connections[arg[p]], FALSE)]
            /\ returned' = returned \cup
                    {[path |-> arg[p], w |-> connections[arg[p]]]}
            /\ pc' = [pc EXCEPT ![p] = "idle"]
       ELSE /\ pc' = [pc EXCEPT ![p] = "g_lock"]
            /\ UNCHANGED <<result, returned>>
    /\ UNCHANGED <<connections, mutexW, arg, nextId, closedW, ncalls,
                   opens, deletes, attempts>>
    /\ UNCHANGED writeVars

\* m.mutex.Lock()
G_Lock(p) ==
    /\ pc[p] = "g_lock"
    /\ mutexW = NoProc
    /\ readers = {}
    /\ mutexW' = p
    /\ pc' = [pc EXCEPT ![p] = "g_slow"]
    /\ UNCHANGED <<connections, readers, arg, result, nextId, closedW, ncalls,
                   returned, opens, deletes, attempts>>
    /\ UNCHANGED writeVars

\* the writer path: double-check, MkdirAll, NewStorageClient, store, and the
\* deferred Unlock.  mkdirOk and openOk are the outcomes of the two calls.
G_SlowPath(p) ==
    /\ pc[p] = "g_slow"
    /\ mutexW = p
    /\ LET path == arg[p] IN
       IF DoubleCheck(connections, path)
       THEN /\ result' = [result EXCEPT ![p] =
                    GetResult(path, connections[path], FALSE)]
            /\ returned' = returned \cup
                    {[path |-> path, w |-> connections[path]]}
            /\ UNCHANGED <<connections, nextId, opens, attempts>>
       ELSE \E mkdirOk \in BOOLEAN, openOk \in BOOLEAN :
            /\ attempts' = Inc(attempts, path)
            /\ IF mkdirOk /\ openOk
               THEN /\ connections' = StoreConnection(connections, path, nextId)
                    /\ nextId' = nextId + 1
                    /\ opens' = Inc(opens, path)
                    /\ result' = [result EXCEPT ![p] =
                            GetResult(path, nextId, FALSE)]
                    /\ returned' = returned \cup {[path |-> path, w |-> nextId]}
               ELSE /\ connections' = FailedCreate(connections, path)
                    /\ result' = [result EXCEPT ![p] =
                            GetResult(path, NoWriter, TRUE)]
                    /\ UNCHANGED <<nextId, opens, returned>>
    /\ mutexW' = DeferredUnlock(p, result'[p].err)
    /\ pc' = [pc EXCEPT ![p] = "idle"]
    /\ UNCHANGED <<readers, arg, closedW, ncalls, deletes>>
    /\ UNCHANGED writeVars

\* a goroutine calls CloseAllConnections()
CallCloseAll(p) ==
    /\ pc[p] = "idle"
    /\ ncalls < MaxCalls
    /\ pc' = [pc EXCEPT ![p] = "ca_lock"]
    /\ arg' = [arg EXCEPT ![p] = NoPath]
    /\ ncalls' = ncalls + 1
    /\ UNCHANGED <<connections, mutexW, readers, result, nextId, closedW,
                   returned, opens, deletes, attempts>>
    /\ UNCHANGED writeVars

\* m.mutex.Lock()
CA_Lock(p) ==
    /\ pc[p] = "ca_lock"
    /\ mutexW = NoProc
    /\ readers = {}
    /\ mutexW' = p
    /\ pc' = [pc EXCEPT ![p] = "ca_body"]
    /\ UNCHANGED <<connections, readers, arg, result, nextId, closedW, ncalls,
                   returned, opens, deletes, attempts>>
    /\ UNCHANGED writeVars

\* the range loop and the deferred Unlock
CA_Body(p) ==
    /\ pc[p] = "ca_body"
    /\ mutexW = p
    /\ LET r == CloseAllLoop(connections, DOMAIN connections, closedW) IN
       /\ connections' = r.conns
       /\ closedW' = r.closed
       /\ deletes' = [q \in Paths |->
                        IF q \in DOMAIN connections /\ q \notin DOMAIN r.conns
                        THEN deletes[q] + 1 ELSE deletes[q]]
    /\ result' = [result EXCEPT ![p] =
            CloseAllResult(Cardinality(DOMAIN connections))]
    /\ mutexW' = DeferredUnlock(p, FALSE)
    /\ pc' = [pc EXCEPT ![p] = "idle"]
    /\ UNCHANGED <<readers, arg, nextId, ncalls, returned, opens, attempts>>
    /\ UNCHANGED writeVars

\* a goroutine calls CloseConnection(path)
CallClose(p, path) ==
    /\ pc[p] = "idle"
    /\ ncalls < MaxCalls
    /\ pc' = [pc EXCEPT ![p] = "cc_lock"]
    /\ arg' = [arg EXCEPT ![p] = path]
    /\ ncalls' = ncalls + 1
    /\ UNCHANGED <<connections, mutexW, readers, result, nextId, closedW,
                   returned, opens, deletes, attempts>>
    /\ UNCHANGED writeVars

\* m.mutex.Lock()
CC_Lock(p) ==
    /\ pc[p] = "cc_lock"
    /\ mutexW = NoProc
    /\ readers = {}
    /\ mutexW' = p
    /\ pc' = [pc EXCEPT ![p] = "cc_body"]
    /\ UNCHANGED <<connections, readers, arg, result, nextId, closedW, ncalls,
                   returned, opens, deletes, attempts>>
    /\ UNCHANGED writeVars

\* close and delete the entry if it exists, and the deferred Unlock
CC_Body(p) ==
    /\ pc[p] = "cc_body"
    /\ mutexW = p
    /\ LET path == arg[p] IN
       IF ConnExists(connections, path)
       THEN /\ closedW' = CC_Close(closedW, connections[path])
            /\ connections' = CC_Delete(connections, path)
            /\ deletes' = [q \in Paths |->
                        IF q \in DOMAIN connections /\ q \notin DOMAIN connections'
                        THEN deletes[q] + 1 ELSE deletes[q]]
            /\ result' = [result EXCEPT ![p] =
                    CloseResult(path, connections[path])]
       ELSE /\ result' = [result EXCEPT ![p] = CloseResult(path, NoWriter)]
            /\ UNCHANGED <<closedW, connections, deletes>>
    /\ mutexW' = DeferredUnlock(p, FALSE)
    /\ pc' = [pc EXCEPT ![p] = "idle"]
    /\ UNCHANGED <<readers, arg, nextId, ncalls, returned, opens, attempts>>
    /\ UNCHANGED writeVars

GetNext ==
    \/ \E p \in Procs, path \in Paths : CallGetOrCreate(p, path)
    \/ \E p \in Procs : G_RLock(p)
    \/ \E p \in Procs : G_FastPath(p)
    \/ \E p \in Procs : G_Lock(p)
    \/ \E p \in Procs : G_SlowPath(p)

RegNext ==
    \/ \E p \in Procs, path \in Paths : CallGetOrCreate(p, path)
    \/ \E p \in Procs : G_RLock(p)
    \/ \E p \in Procs : G_FastPath(p)
    \/ \E p \in Procs : G_Lock(p)
    \/ \E p \in Procs : G_SlowPath(p)
    \/ \E p \in Procs : CallCloseAll(p)
    \/ \E p \in Procs : CA_Lock(p)
    \/ \E p \in Procs : CA_Body(p)
    \/ \E p \in Procs, path \in Paths : CallClose(p, path)
    \/ \E p \in Procs : CC_Lock(p)
    \/ \E p \in Procs : CC_Body(p)

\* the registry under GetOrCreateConnection calls only
SpecGet == RegInit /\ [][GetNext]_vars

\* the registry under all three operations
SpecReg == RegInit /\ [][RegNext]_vars

\* the steps of a call in progress that take no lock: a goroutine that can
\* run is scheduled
RunStep(p) ==
    G_FastPath(p) \/ G_SlowPath(p) \/ CA_Body(p) \/ CC_Body(p)

\* the steps that take a lock: sync.RWMutex makes a pending Lock hold new
\* readers back and hands the lock to goroutines that have waited, so a
\* goroutine that can take the lock again and again does take it
LockStep(p) ==
    G_RLock(p) \/ G_Lock(p) \/ CA_Lock(p) \/ CC_Lock(p)

\* the calls that the goroutines under the fair scheduler make in all
MaxFairCalls == 2

\* the registry under all three operations and a fair scheduler; callers
\* are not obliged to call
RegFairNext ==
    \/ \E p \in Procs, path \in Paths :
            ncalls < MaxFairCalls /\ CallGetOrCreate(p, path)
    \/ \E p \in Procs : G_RLock(p)
    \/ \E p \in Procs : G_FastPath(p)
    \/ \E p \in Procs : G_Lock(p)
    \/ \E p \in Procs : G_SlowPath(p)
    \/ \E p \in Procs : ncalls < MaxFairCalls /\ CallCloseAll(p)
    \/ \E p \in Procs : CA_Lock(p)
    \/ \E p \in Procs : CA_Body(p)
    \/ \E p \in Procs, path \in Paths :
            ncalls < MaxFairCalls /\ CallClose(p, path)
    \/ \E p \in Procs : CC_Lock(p)
    \/ \E p \in Procs : CC_Body(p)

SpecRegFair ==
    /\ RegInit
    /\ [][RegFairNext]_vars
    /\ \A p \in Procs : WF_vars(RunStep(p)) /\ SF_vars(LockStep(p))

----------------------------------------------------------------------------
(* Claims about the connection registry *)

Present(path) == IF ConnExists(connections, path) THEN 1 ELSE 0

\* C1: under concurrent GetOrCreateConnection calls (and nothing else) at
\* most one writer is ever opened for a path, the map holds an entry for the
\* path exactly when that writer was opened, and every caller that got a
\* writer for the path got the one writer the map holds.
C1_UniqueWriterPerPath ==
    \A path \in Paths :
        /\ opens[path] <= 1
        /\ (opens[path] = 1) <=> ConnExists(connections, path)
        /\ \A r \in returned :
              r.path = path =>
                /\ ConnExists(connections, path)
                /\ connections[path] = r.w
        /\ \A p \in Procs :
              (result[p].op = "get" /\ result[p].path = path /\ ~result[p].err)
                => result[p].w = connections[path]

\* a goroutine that missed on the reader path holds the write lock while
\* another caller has already created and received the writer
C1_Witness ==
    \E p \in Procs, q \in Procs :
        /\ p # q
        /\ pc[p] = "g_slow"
        /\ ConnExists(connections, arg[p])
        /\ result[q].op = "get"
        /\ result[q].path = arg[p]
        /\ ~result[q].err
        /\ result[q].w = connections[arg[p]]

\* C2 (as stated): over any interleaving of the three operations a writer is
\* opened at most once per path during the whole process lifetime.
C2_OpenedOncePerLifetime ==
    \A path \in Paths : opens[path] <= 1

\* C2 (amended): a writer is opened at most once per path for as long as the
\* path's entry stays in the map; a further writer is opened for the path
\* only after CloseConnection or CloseAllConnections deleted the entry, so
\* the number of opens is the number of deletions plus the entry present.
C2_OpenedOncePerEntry ==
    \A path \in Paths : opens[path] = deletes[path] + Present(path)

\* a path whose writer was closed and that was opened a second time
C2_Witness ==
    \E path \in Paths :
        /\ opens[path] = 2
        /\ deletes[path] = 1
        /\ ConnExists(connections, path)

\* C3: the step of CloseConnection(path) that runs under the write lock closes
\* and deletes exactly the entry of path if there is one, changes nothing if
\* there is none, and leaves every other entry in the map with its writer,
\* not closed.
C3_CloseConnectionExact ==
    [][\A p \in Procs :
        (pc[p] = "cc_body" /\ pc'[p] = "idle") =>
            /\ DOMAIN connections' = (DOMAIN connections) \ {arg[p]}
            /\ \A q \in DOMAIN connections' : connections'[q] = connections[q]
            /\ closedW' = closedW \cup
                    (IF ConnExists(connections, arg[p])
                     THEN {connections[arg[p]]} ELSE {})
            /\ ~ConnExists(connections, arg[p]) =>
                    (connections' = connections /\ closedW' = closedW)]_vars

\* CloseConnection closed the writer of one path while the entry of another
\* path is still in the map and open
C3_Witness ==
    \E p \in Procs :
        /\ result[p].op = "close"
        /\ result[p].w \in closedW
        /\ ~ConnExists(connections, result[p].path)
        /\ \E q \in DOMAIN connections :
              q # result[p].path /\ connections[q] \notin closedW

\* C4: when CloseAllConnections returns (the step that runs under the write
\* lock and releases it) the map is empty and every writer the map held is
\* closed.
C4_CloseAllEmpties ==
    [][\A p \in Procs :
        (pc[p] = "ca_body" /\ pc'[p] = "idle") =>
            /\ connections' = EmptyMap
            /\ MapValues(connections) \subseteq closedW'
            /\ mutexW' = NoProc]_vars

\* CloseAllConnections found two entries and left the map empty
C4_Witness ==
    \E p \in Procs :
        /\ result[p].op = "closeall"
        /\ result[p].n = 2
        /\ connections = EmptyMap
        /\ Cardinality(closedW) >= 2

\* C5: when the creation fails (MkdirAll or NewStorageClient returns an
\* error) GetOrCreateConnection returns an error and no writer and the map is
\* as it was, without an entry for the path; and every call that finds no
\* entry under the write lock makes a creation attempt, whatever failed
\* before.
C5_FailedCreateStoresNothing ==
    [][\A p \in Procs :
        (pc[p] = "g_slow" /\ pc'[p] = "idle") =>
            /\ result'[p].err =>
                    /\ result'[p].w = NoWriter
                    /\ connections' = connections
                    /\ ~ConnExists(connections', arg[p])
                    /\ returned' = returned
            /\ ~ConnExists(connections, arg[p]) =>
                    attempts'[arg[p]] = attempts[arg[p]] + 1
            /\ ConnExists(connections, arg[p]) => ~result'[p].err]_vars

\* a creation failed for a path and a later call created it
C5_Witness ==
    \E path \in Paths :
        /\ attempts[path] >= 2
        /\ opens[path] = 1
        /\ deletes[path] = 0
        /\ ConnExists(connections, path)


\* C27: in every reachable state of the registry, under any interleaving of
\* the three operations, every writer stored in the connections map is
\* open: none of them has had Close() called on it
C27_StoredWritersOpen ==
    \A path \in DOMAIN connections : connections[path] \notin closedW

\* a path whose first writer was closed by the registry and whose entry
\* now holds a second, open writer
C27_Witness ==
    \E path \in DOMAIN connections :
        /\ connections[path] \notin closedW
        /\ \E r \in returned : r.path = path /\ r.w \in closedW

\* a call in progress of goroutine p
InCall(p) == pc[p] # "idle"

\* C28: the registry never deadlocks (whenever calls are in progress, one
\* of them can take its next step) and, under fair scheduling, every call
\* eventually returns
C28_NoDeadlockAndEveryCallReturns ==
    /\ []((\E p \in Procs : InCall(p)) =>
            \E p \in Procs : ENABLED (RunStep(p) \/ LockStep(p)))
    /\ \A p \in Procs : InCall(p) ~> ~InCall(p)

\* a GetOrCreateConnection has returned an error, and after it another
\* goroutine has taken the write lock
C28_Witness ==
    \E p \in Procs, q \in Procs :
        /\ p # q
        /\ result[p].op = "get" /\ result[p].err
        /\ ~InCall(p)
        /\ mutexW = q

----------------------------------------------------------------------------
(* Type lattice: ColumnType, PromoteTo, duckDbTypeFromInput *)

Null == "BIT"
Boolean == "BOOLEAN"
Utinyint == "UTINYINT"
Usmallint == "USMALLINT"
Uinteger == "UINTEGER"
Ubigint == "UBIGINT"
Tinyint == "TINYINT"
Smallint == "SMALLINT"
Integer == "INTEGER"
Bigint == "BIGINT"
Hugeint == "HUGEINT"
Float == "FLOAT"
Double == "DOUBLE"
Date == "DATE"
Time == "TIME"
Timestamp == "TIMESTAMP"
Uuid == "UUID"
Varchar == "VARCHAR"
Json == "JSON"
JsonMap == "JSON_MAP"
UnknownInt == "UNKNOWN_INT"
UnknownFloat == "UNKNOWN_FLOAT"
UnknownString == "UNKNOWN_STRING"
Unknown == "UNKNOWN"

\* the column types that carry values
ValueTypes ==
    {Null, Boolean, Utinyint, Usmallint, Uinteger, Ubigint, Tinyint, Smallint,
     Integer, Bigint, Hugeint, Float, Double, Date, Time, Timestamp, Uuid,
     Varchar, Json}

UnsignedTypes == {Utinyint, Usmallint, Uinteger, Ubigint}
SignedTypes == {Tinyint, Smallint, Integer, Bigint}
IntegerTypes == UnsignedTypes \cup SignedTypes \cup {Hugeint}

\* value ranges of the integer types, as documented with the constants:
\* the type holds  -(2^IntLoBits) .. 2^IntHiBits - 1,  IntLoBits = -1 for a
\* minimum of 0 (for Hugeint the documented minimum -(2^127 - 1) lies between
\* -(2^127) and -(2^126); 127 bounds it)
IntLoBits(t) ==
    CASE t = Utinyint -> -1 [] t = Usmallint -> -1 [] t = Uinteger -> -1
      [] t = Ubigint -> -1
      [] t = Tinyint -> 7 [] t = Smallint -> 15 [] t = Integer -> 31
      [] t = Bigint -> 63 [] t = Hugeint -> 127

IntHiBits(t) ==
    CASE t = Utinyint -> 8 [] t = Usmallint -> 16 [] t = Uinteger -> 32
      [] t = Ubigint -> 64
      [] t = Tinyint -> 7 [] t = Smallint -> 15 [] t = Integer -> 31
      [] t = Bigint -> 63 [] t = Hugeint -> 127

\* the range of integer type a lies within the range of integer type b
RangeWithin(a, b) ==
    /\ IntLoBits(a) <= IntLoBits(b)
    /\ IntHiBits(a) <= IntHiBits(b)

\* the two ways PromoteTo returns
PromotedAsUnknown(t) == [t |-> Unknown, err |-> FALSE]
Promoted(t) == [t |-> t, err |-> FALSE]
NoCase(old) == [t |-> Unknown, err |-> TRUE]

PromoteTo(old, given) ==
    CASE old = Null -> Promoted(given)
      [] old = Boolean -> (
            CASE given \in {Null, Boolean}
                    -> Promoted(Boolean)
              [] given \in {Utinyint, Usmallint, Uinteger, Ubigint, Tinyint, Smallint, Integer, Bigint, Hugeint, Float, Double}
                    -> Promoted(given)
              [] given \in {Date, Time, Timestamp, Uuid, Varchar, Json}
                    -> Promoted(Varchar)
              [] OTHER -> NoCase(old))
      [] old = Utinyint -> (
            CASE given \in {Null, Boolean, Utinyint}
                    -> Promoted(Utinyint)
              [] given \in {Usmallint, Uinteger, Ubigint, Float, Double}
                    -> Promoted(given)
              [] given \in {Tinyint}
                    -> Promoted(Smallint)
              [] given \in {Smallint}
                    -> Promoted(Integer)
              [] given \in {Integer}
                    -> Promoted(Bigint)
              [] given \in {Bigint, Hugeint}
                    -> Promoted(Hugeint)
              [] given \in {Date, Time, Timestamp, Uuid, Varchar, Json}
                    -> Promoted(Varchar)
              [] OTHER -> NoCase(old))
      [] old = Usmallint -> (
            CASE given \in {Null, Boolean, Utinyint, Usmallint}
                    -> Promoted(Usmallint)
              [] given \in {Uinteger, Ubigint, Float, Double}
                    -> Promoted(given)
              [] given \in {Tinyint}
                    -> Promoted(Integer)
              [] given \in {Smallint}
                    -> Promoted(Integer)
              [] given \in {Integer}
                    -> Promoted(Bigint)
              [] given \in {Bigint, Hugeint}
                    -> Promoted(Hugeint)
              [] given \in {Date, Time, Timestamp, Uuid, Varchar, Json}
                    -> Promoted(Varchar)
              [] OTHER -> NoCase(old))
      [] old = Uinteger -> (
            CASE given \in {Null, Boolean, Utinyint, Usmallint, Uinteger}
                    -> Promoted(Uinteger)
              [] given \in {Ubigint}
                    -> Promoted(Ubigint)
              [] given \in {Tinyint}
                    -> Promoted(Bigint)
              [] given \in {Smallint}
                    -> Promoted(Bigint)
              [] given \in {Integer}
                    -> Promoted(Bigint)
              [] given \in {Bigint, Hugeint}
                    -> Promoted(Hugeint)
              [] given \in {Float, Double}
                    -> Promoted(given)
              [] given \in {Date, Time, Timestamp, Uuid, Varchar, Json}
                    -> Promoted(Varchar)
              [] OTHER -> NoCase(old))
      [] old = Ubigint -> (
            CASE given \in {Null, Boolean, Utinyint, Usmallint, Uinteger, Ubigint}
                    -> Promoted(Ubigint)
              [] given \in {Tinyint}
                    -> Promoted(Hugeint)
              [] given \in {Smallint}
                    -> Promoted(Hugeint)
              [] given \in {Integer}
                    -> Promoted(Hugeint)
              [] given \in {Bigint, Hugeint}
                    -> Promoted(Hugeint)
              [] given \in {Float, Double}
                    -> Promoted(given)
              [] given \in {Date, Time, Timestamp, Uuid, Varchar, Json}
                    -> Promoted(Varchar)
              [] OTHER -> NoCase(old))
      [] old = Tinyint -> (
            CASE given \in {Null, Boolean, Tinyint}
                    -> Promoted(Tinyint)
              [] given \in {Utinyint}
                    -> Promoted(Smallint)
              [] given \in {Usmallint}
                    -> Promoted(Integer)
              [] given \in {Uinteger}
                    -> Promoted(Bigint)
              [] given \in {Ubigint}
                    -> Promoted(Hugeint)
              [] given \in {Smallint, Integer, Bigint, Hugeint, Float, Double}
                    -> Promoted(given)
              [] given \in {Date, Time, Timestamp, Uuid, Varchar, Json}
                    -> Promoted(Varchar)
              [] OTHER -> NoCase(old))
      [] old = Smallint -> (
            CASE given \in {Null, Boolean, Tinyint, Smallint, Utinyint}
                    -> Promoted(Smallint)
              [] given \in {Usmallint}
                    -> Promoted(Integer)
              [] given \in {Uinteger}
                    -> Promoted(Bigint)
              [] given \in {Ubigint}
                    -> Promoted(Hugeint)
              [] given \in {Integer, Bigint, Hugeint, Float, Double}
                    -> Promoted(given)
              [] given \in {Date, Time, Timestamp, Uuid, Varchar, Json}
                    -> Promoted(Varchar)
              [] OTHER -> NoCase(old))
      [] old = Integer -> (
            CASE given \in {Null, Boolean, Tinyint, Smallint, Integer, Utinyint, Usmallint}
                    -> Promoted(Integer)
              [] given \in {Uinteger}
                    -> Promoted(Bigint)
              [] given \in {Ubigint}
                    -> Promoted(Hugeint)
              [] given \in {Bigint, Hugeint, Float, Double}
                    -> Promoted(given)
              [] given \in {Date, Time, Timestamp, Uuid, Varchar, Json}
                    -> Promoted(Varchar)
              [] OTHER -> NoCase(old))
      [] old = Bigint -> (
            CASE given \in {Null, Boolean, Tinyint, Smallint, Integer, Bigint, Utinyint, Usmallint}
                    -> Promoted(Bigint)
              [] given \in {Uinteger}
                    -> Promoted(Hugeint)
              [] given \in {Ubigint}
                    -> Promoted(Hugeint)
              [] given \in {Hugeint, Float, Double}
                    -> Promoted(given)
              [] given \in {Date, Time, Timestamp, Uuid, Varchar, Json}
                    -> Promoted(Varchar)
              [] OTHER -> NoCase(old))
      [] old = Hugeint -> (
            CASE given \in {Null, Boolean, Tinyint, Smallint, Integer, Bigint, Hugeint, Utinyint, Usmallint, Uinteger, Ubigint}
                    -> Promoted(Hugeint)
              [] given \in {Float, Double, Date, Time, Timestamp, Uuid, Varchar, Json}
                    -> Promoted(Varchar)
              [] OTHER -> NoCase(old))
      [] old = Float -> (
            CASE given \in {Null, Boolean, Utinyint, Usmallint, Uinteger, Ubigint, Tinyint, Smallint, Integer, Bigint, Float}
                    -> Promoted(Float)
              [] given \in {Double}
                    -> Promoted(Double)
              [] given \in {Hugeint, Date, Time, Timestamp, Uuid, Varchar, Json}
                    -> Promoted(Varchar)
              [] OTHER -> NoCase(old))
      [] old = Double -> (
            CASE given \in {Null, Boolean, Utinyint, Usmallint, Uinteger, Ubigint, Tinyint, Smallint, Integer, Bigint, Float, Double}
                    -> Promoted(Double)
              [] given \in {Hugeint, Date, Time, Timestamp, Uuid, Varchar, Json}
                    -> Promoted(Varchar)
              [] OTHER -> NoCase(old))
      [] old = Date -> (
            CASE given \in {Null, Date}
                    -> Promoted(Date)
              [] given \in {Time, Timestamp}
                    -> Promoted(Timestamp)
              [] given \in {Boolean, Utinyint, Usmallint, Uinteger, Ubigint, Tinyint, Smallint, Integer, Bigint, Hugeint, Float, Double, Uuid, Varchar, Json}
                    -> Promoted(Varchar)
              [] OTHER -> NoCase(old))
      [] old = Time -> (
            CASE given \in {Null, Time}
                    -> Promoted(Time)
              [] given \in {Date, Timestamp}
                    -> Promoted(Timestamp)
              [] given \in {Boolean, Utinyint, Usmallint, Uinteger, Ubigint, Tinyint, Smallint, Integer, Bigint, Hugeint, Float, Double, Uuid, Varchar, Json}
                    -> Promoted(Varchar)
              [] OTHER -> NoCase(old))
      [] old = Timestamp -> (
            CASE given \in {Null, Timestamp, Date, Time}
                    -> Promoted(Timestamp)
              [] given \in {Boolean, Utinyint, Usmallint, Uinteger, Ubigint, Tinyint, Smallint, Integer, Bigint, Hugeint, Float, Double, Uuid, Varchar, Json}
                    -> Promoted(Varchar)
              [] OTHER -> NoCase(old))
      [] old = Uuid -> (
            CASE given \in {Null, Uuid}
                    -> Promoted(Uuid)
              [] given \in {Boolean, Utinyint, Usmallint, Uinteger, Ubigint, Tinyint, Smallint, Integer, Bigint, Hugeint, Float, Double, Date, Time, Timestamp, Varchar, Json}
                    -> Promoted(Varchar)
              [] OTHER -> NoCase(old))
      [] old = Varchar -> (
            CASE given \in {Null, Varchar}
                    -> Promoted(Varchar)
              [] given \in {Boolean, Utinyint, Usmallint, Uinteger, Ubigint, Tinyint, Smallint, Integer, Bigint, Hugeint, Float, Double, Date, Time, Timestamp, Uuid, Json}
                    -> Promoted(Varchar)
              [] OTHER -> NoCase(old))
      [] old = Json -> (
            CASE given \in {Null, Json}
                    -> Promoted(Json)
              [] given \in {Boolean, Utinyint, Usmallint, Uinteger, Ubigint, Tinyint, Smallint, Integer, Bigint, Hugeint, Float, Double, Date, Time, Timestamp, Uuid, Varchar}
                    -> Promoted(Varchar)
              [] OTHER -> NoCase(old))
      [] OTHER -> NoCase(old)

----------------------------------------------------------------------------
(* Runtime values *)

\* int64 in two's complement, four 16-bit limbs, most significant first
Limb == 65536
I64Neg(v) == v[1] >= 32768

\* unsigned comparison of the bit patterns
RECURSIVE LimbsLeq(_, _, _)
LimbsLeq(v, w, i) ==
    IF i > 4 THEN TRUE
    ELSE IF v[i] < w[i] THEN TRUE
    ELSE IF v[i] > w[i] THEN FALSE
    ELSE LimbsLeq(v, w, i + 1)

\* v <= w on int64
I64Leq(v, w) ==
    IF I64Neg(v) = I64Neg(w) THEN LimbsLeq(v, w, 1) ELSE I64Neg(v)

\* int64 constant of a small natural, and of its negation
I64Small(n) == <<0, 0, 0, n>>
I64Minus(n) == IF n = 0 THEN <<0, 0, 0, 0>> ELSE <<65535, 65535, 65535, Limb - n>>

I64_0 == I64Small(0)
I64_254 == I64Small(254)
I64_255 == I64Small(255)
I64_65535 == I64Small(65535)
I64_4294967295 == <<0, 0, 65535, 65535>>
I64_m1 == I64Minus(1)
I64_m128 == I64Minus(128)
I64_m129 == I64Minus(129)
I64_m32768 == I64Minus(32768)
I64_m32769 == I64Minus(32769)
I64_m2147483648 == <<65535, 65535, 32768, 0>>
I64_m2147483649 == <<65535, 65535, 32767, 65535>>

typeFromInt64(v) ==
    IF I64Leq(I64_0, v) /\ I64Leq(v, I64_255) THEN Utinyint
    ELSE IF I64Leq(I64_0, v) /\ I64Leq(v, I64_65535) THEN Usmallint
    ELSE IF I64Leq(I64_0, v) /\ I64Leq(v, I64_4294967295) THEN Uinteger
    ELSE IF I64Leq(I64_0, v) THEN Ubigint
    ELSE IF I64Leq(I64_m128, v) /\ I64Leq(v, I64_m1) THEN Tinyint
    ELSE IF I64Leq(I64_m32768, v) /\ I64Leq(v, I64_m129) THEN Smallint
    ELSE IF I64Leq(I64_m2147483648, v) /\ I64Leq(v, I64_m32769) THEN Integer
    ELSE IF I64Leq(v, I64_m2147483649) THEN Bigint
    ELSE UnknownInt

\* lo <= v <= hi on int64
I64Between(lo, v, hi) == I64Leq(lo, v) /\ I64Leq(v, hi)

\* the int64 values in the documented range of an integer type
I64InRange(v, t) ==
    CASE t = Utinyint -> I64Between(I64Small(0), v, I64Small(255))
      [] t = Usmallint -> I64Between(I64Small(0), v, I64Small(65535))
      [] t = Uinteger -> I64Between(I64Small(0), v, <<0, 0, 65535, 65535>>)
      [] t = Ubigint -> I64Leq(I64Small(0), v)
      [] t = Tinyint -> I64Between(I64Minus(128), v, I64Small(127))
      [] t = Smallint -> I64Between(I64Minus(32768), v, I64Small(32767))
      [] t = Integer ->
            I64Between(<<65535, 65535, 32768, 0>>, v, <<0, 0, 32767, 65535>>)
      [] t = Bigint -> TRUE
      [] t = Hugeint -> TRUE

\* float64: cls is "fin", "inf" or "nan"; a finite value has magnitude
\* (m / 100) * 10^e with 100 <= m <= 999, or m = 0 for zero
FloatAbsLeq(f, m, e) ==
    /\ f.cls = "fin"
    /\ \/ f.m = 0
       \/ f.e < e
       \/ f.e = e /\ f.m <= m

typeFromFloat64(f) ==
    IF FloatAbsLeq(f, 340, 38) THEN Float
    ELSE IF FloatAbsLeq(f, 170, 308) THEN Double
    ELSE UnknownFloat

\* text: a sequence of characters (Go index i is index i + 1 here)
typeFromString(v) ==
    LET length == Len(v) IN
    IF length = 10 /\ v[5] = "-" /\ v[8] = "-" THEN Date
    ELSE IF length = 8 /\ v[3] = ":" /\ v[6] = ":" THEN Time
    ELSE IF (length = 12 \/ length = 15) /\ v[3] = ":" /\ v[6] = ":"
            /\ v[9] = "." THEN Time
    ELSE IF length = 19 /\ v[5] = "-" /\ v[8] = "-" /\ v[11] = " "
            /\ v[14] = ":" /\ v[17] = ":" THEN Timestamp
    ELSE IF (length = 23 \/ length = 26) /\ v[5] = "-" /\ v[8] = "-"
            /\ v[11] = " " /\ v[14] = ":" /\ v[17] = ":" /\ v[20] = "."
         THEN Timestamp
    ELSE Varchar

\* the Go values of the model, by dynamic type
NilV == [k |-> "nil"]
BoolV(b) == [k |-> "bool", b |-> b]
IntV(v) == [k |-> "int", v |-> v]
FloatV(cls, m, e) == [k |-> "float", cls |-> cls, m |-> m, e |-> e]
TimeV(date) == [k |-> "time", date |-> date]
StrV(s) == [k |-> "str", s |-> s]
ArrV(items) == [k |-> "arr", items |-> items]
MapV(m) == [k |-> "map", m |-> m]
\* a value of a Go type the type switch has no case for (uint64, ...)
OtherV == [k |-> "other"]

duckDbTypeFromInput(value) ==
    IF value.k = "nil" THEN Null
    ELSE IF value.k = "bool" THEN Boolean
    ELSE IF value.k = "int" THEN typeFromInt64(value.v)
    ELSE IF value.k = "float" THEN typeFromFloat64(value)
    ELSE IF value.k = "time" THEN Timestamp
    ELSE IF value.k = "str" THEN typeFromString(value.s)
    ELSE IF value.k = "arr" THEN Json
    ELSE IF value.k = "map" THEN JsonMap
    ELSE Unknown

----------------------------------------------------------------------------
(* Record normaliser: flattenJsonMaps, preprocessRow *)

\* all orders in which a range loop can visit the keys of a Go map
Perms(S) ==
    {s \in [1..Cardinality(S) -> S] :
        \A i \in DOMAIN s, j \in DOMAIN s : s[i] = s[j] => i = j}

\* assignments of m applied on top of acc
Overwrite(acc, m) ==
    [x \in (DOMAIN acc) \cup (DOMAIN m) |->
        IF x \in DOMAIN m THEN m[x] ELSE acc[x]]

Digits == <<"0", "1", "2", "3", "4", "5", "6", "7", "8", "9">>

\* json.Marshal of the array elements the model uses: null, booleans and the
\* integers 0..9
JsonScalar(v) ==
    IF v.k = "nil" THEN <<"n", "u", "l", "l">>
    ELSE IF v.k = "bool"
         THEN (IF v.b THEN <<"t", "r", "u", "e">>
               ELSE <<"f", "a", "l", "s", "e">>)
    ELSE <<Digits[v.v[4] + 1]>>

RECURSIVE JsonItems(_)
JsonItems(items) ==
    IF items = <<>> THEN <<>>
    ELSE JsonScalar(Head(items))
            \o (IF Len(items) > 1 THEN <<",">> ELSE <<>>)
            \o JsonItems(Tail(items))

JsonMarshalArray(items) == <<"[">> \o JsonItems(items) \o <<"]">>

\* newKey2 := k + "_" + mmk
ComposeKeyParentOnly(k, mmk) == k
ComposeKey(k, mmk) == k \o "_" \o mmk

\* the entries of a flattened child map under the composed keys
Prefixed(k, f) ==
    LET pairs == {<<ComposeKey(k, x), f[x]>> : x \in DOMAIN f}
    IN [kk \in {p[1] : p \in pairs} |->
            (CHOOSE p \in pairs : p[1] = kk)[2]]

RECURSIVE MergeInOrder(_, _, _, _)
MergeInOrder(order, contrib, i, acc) ==
    IF i > Len(order) THEN acc
    ELSE MergeInOrder(order, contrib, i + 1,
                      Overwrite(acc, contrib[order[i]]))

\* flattenJsonMaps: the rows it can return.  The range over the row visits
\* the keys in any order and a later assignment to resultRow overwrites an
\* earlier one with the same key.
RECURSIVE FlattenSet(_)
FlattenSet(row) ==
    LET keys == DOMAIN row
        Contrib(k) ==
            IF row[k].k = "map"
            THEN {Prefixed(k, f) : f \in FlattenSet(row[k].m)}
            ELSE IF row[k].k = "arr"
            THEN {[x \in {k} |-> StrV(JsonMarshalArray(row[k].items))]}
            ELSE {[x \in {k} |-> row[k]]}
        Choices ==
            {c \in [keys -> UNION {Contrib(k) : k \in keys}] :
                \A k \in keys : c[k] \in Contrib(k)}
    IN {MergeInOrder(order, c, 1, EmptyMap) :
            order \in Perms(keys), c \in Choices}

getDateFromTimestamp(row) ==
    IF "timestamp" \notin DOMAIN row THEN [s |-> <<>>, ok |-> FALSE]
    ELSE LET ts == row["timestamp"] IN
         IF ts.k = "time" THEN [s |-> ts.date, ok |-> TRUE]
         ELSE IF ts.k = "str" /\ Len(ts.s) >= 10
              THEN [s |-> SubSeq(ts.s, 1, 10), ok |-> TRUE]
         ELSE [s |-> <<>>, ok |-> FALSE]

preprocessTimestamp(value, row) ==
    IF value.k # "str" THEN value
    ELSE IF Len(value.s) >= 8 /\ value.s[3] = ":" /\ value.s[6] = ":"
         THEN LET ts == getDateFromTimestamp(row) IN
              IF ~ts.ok THEN value
              ELSE StrV(SubSeq(ts.s, 1, 10) \o <<" ">> \o value.s)
    ELSE value

\* cols[col] of a Go map: the zero value "" when the key is missing
ColType(cols, col) == IF col \in DOMAIN cols THEN cols[col] ELSE ""

preprocessRowSkipped(row, cols) == row
preprocessRow(row, cols) ==
    [col \in DOMAIN row |->
        IF col # "timestamp" /\ ColType(cols, col) = Timestamp
        THEN preprocessTimestamp(row[col], row)
        ELSE row[col]]

----------------------------------------------------------------------------
(* The store: one table, its columns by name *)

\* the types CREATE TABLE / ADD COLUMN / SET DATA TYPE accept
Storable(t) == t \in ValueTypes

\* statements sent to the store, as logged by a Write call
Stmt(op, col, from, to, using, ok) ==
    [op |-> op, col |-> col, from |-> from, to |-> to, using |-> using,
     ok |-> ok]
QueryStmt == Stmt("query", "", "", "", "", TRUE)
CreateStmt(ok) == Stmt("create", "timestamp", "", Timestamp, "", ok)
AlterStmt(col, from, to, using, ok) == Stmt("alter", col, from, to, using, ok)
AddStmt(col, to, ok) == Stmt("add", col, "", to, "", ok)
InsertStmt(ok) == Stmt("insert", "", "", "", "", ok)

\* CREATE TABLE t (timestamp TIMESTAMP): fails when the table exists
StoreCreateOk(db) == db = EmptyMap
StoreCreate(db) == [x \in {"timestamp"} |-> Timestamp]

\* ALTER TABLE t ALTER COLUMN col SET DATA TYPE to USING ...
StoreAlterOk(db, col, to) == col \in DOMAIN db /\ Storable(to)
StoreAlter(db, col, to) == [db EXCEPT ![col] = to]

\* ALTER TABLE t ADD COLUMN col to
StoreAddOk(db, col, to) ==
    db # EmptyMap /\ col \notin DOMAIN db /\ Storable(to)
StoreAdd(db, col, to) == MapPut(db, col, to)

\* INSERT INTO t (columns of the row) VALUES (...): fails when a column is
\* missing or an integer does not fit the type of its column
StoreInsertOk(db, row) ==
    /\ db # EmptyMap
    /\ DOMAIN row # {}
    /\ DOMAIN row \subseteq DOMAIN db
    /\ \A col \in DOMAIN row :
        (row[col].k = "int" /\ db[col] \in IntegerTypes)
            => I64InRange(row[col].v, db[col])

\* a stored value that the store converted to type `to`
CastV(to, of) == [k |-> "cast", to |-> to, of |-> of]

\* the value the store keeps for a Go value bound to a column of type t
StoreCell(value, t) ==
    IF value.k = "nil" THEN NilV
    ELSE IF value.k = "int" /\ t \in IntegerTypes
         THEN (IF I64InRange(value.v, t) THEN value ELSE CastV(t, value))
    ELSE IF duckDbTypeFromInput(value) = t THEN value
    ELSE CastV(t, value)

\* TRY_CAST(cell AS to): NULL when the value does not fit
TryCast(cell, to) ==
    IF cell.k = "nil" THEN NilV
    ELSE IF cell.k = "int" /\ to \in IntegerTypes
         THEN (IF I64InRange(cell.v, to) THEN cell ELSE NilV)
    ELSE CastV(to, cell)

\* the date of a stored timestamp
CellDate(cell) ==
    IF cell.k = "time" THEN [s |-> cell.date, ok |-> TRUE]
    ELSE IF cell.k = "str" /\ typeFromString(cell.s) = Timestamp
         THEN [s |-> SubSeq(cell.s, 1, 10), ok |-> TRUE]
    ELSE [s |-> <<>>, ok |-> FALSE]

\* date_trunc('day', timestamp) + col::TIME on one stored row
DateTruncPlusTime(cells, col) ==
    LET d == IF "timestamp" \in DOMAIN cells
             THEN CellDate(cells["timestamp"])
             ELSE [s |-> <<>>, ok |-> FALSE]
        c == cells[col]
    IN IF c.k = "str" /\ typeFromString(c.s) = Time /\ d.ok
       THEN StrV(d.s \o <<" ">> \o c.s)
       ELSE NilV

\* the USING expression of an ALTER on one stored row
UsingValue(stmt, cells) ==
    IF stmt.using = "TRY_CAST" THEN TryCast(cells[stmt.col], stmt.to)
    ELSE DateTruncPlusTime(cells, stmt.col)

\* a row of the table: the Go row that was inserted and the stored values
StoredRow(ins, db) ==
    [orig |-> ins,
     cur |-> [col \in DOMAIN db |->
                IF col \in DOMAIN ins THEN StoreCell(ins[col], db[col])
                ELSE NilV]]

\* the rows of the table after one statement; db: the columns after it
StoreApply(tbl, db, stmt, ins) ==
    IF ~stmt.ok THEN tbl
    ELSE IF stmt.op = "alter"
    THEN [i \in DOMAIN tbl |->
            [tbl[i] EXCEPT !.cur =
                [tbl[i].cur EXCEPT ![stmt.col] = UsingValue(stmt, tbl[i].cur)]]]
    ELSE IF stmt.op = "add"
    THEN [i \in DOMAIN tbl |->
            [tbl[i] EXCEPT !.cur = MapPut(tbl[i].cur, stmt.col, NilV)]]
    ELSE IF stmt.op = "insert" THEN Append(tbl, StoredRow(ins, db))
    ELSE tbl

RECURSIVE StoreApplyAll(_, _, _, _, _)
StoreApplyAll(tbl, db, stmts, ins, i) ==
    IF i > Len(stmts) THEN tbl
    ELSE StoreApplyAll(StoreApply(tbl, db, stmts[i], ins), db, stmts, ins,
                       i + 1)

----------------------------------------------------------------------------
(* Schema writer: Writer.Write *)

MaxRows == 2

\* `if len(row) <= 1`
RowIsTrivialOnlyEmpty(row) == Cardinality(DOMAIN row) < 1
RowIsTrivialUpToTwo(row) == Cardinality(DOMAIN row) <= 2
RowIsTrivial(row) == Cardinality(DOMAIN row) <= 1

\* the catalogue query: column_name, data_type of the table's columns
getCurrentColumns(db) == db

\* ensureTableExists: CREATE TABLE when the query listed no column
ensureTableExists(db, cols) ==
    IF Cardinality(DOMAIN cols) = 0
    THEN IF StoreCreateOk(db)
         THEN [db |-> StoreCreate(db),
               cols |-> MapPut(cols, "timestamp", Timestamp),
               stmts |-> <<CreateStmt(TRUE)>>, err |-> FALSE]
         ELSE [db |-> db, cols |-> cols,
               stmts |-> <<CreateStmt(FALSE)>>, err |-> TRUE]
    ELSE [db |-> db, cols |-> cols, stmts |-> <<>>, err |-> FALSE]

\* promoteColumn: the USING clause of the ALTER
UsingClauseTryCast(oldType, promoteType) == "TRY_CAST"
UsingClause(oldType, promoteType) ==
    IF oldType = Time /\ promoteType = Timestamp
    THEN "date_trunc('day', timestamp) + col::TIME"
    ELSE "TRY_CAST"

\* `if promoteType == oldType { continue }`
PromotionNeeded(oldType, promoteType) == promoteType # oldType

\* the type promoteColumns alters the column to
AlterTargetGiven(promoteType, givenType) == givenType
AlterTarget(promoteType, givenType) == promoteType

\* one iteration of the range loop of promoteColumns
promoteColumnsStep(st, row, col) ==
    IF col \notin DOMAIN st.cols THEN st
    ELSE LET oldType == st.cols[col]
             givenType == duckDbTypeFromInput(row[col])
             pr == PromoteTo(oldType, givenType)
             target == AlterTarget(pr.t, givenType)
         IN
         IF givenType = oldType THEN st
         ELSE IF pr.err THEN [st EXCEPT !.err = TRUE]
         ELSE IF ~PromotionNeeded(oldType, pr.t) THEN st
         ELSE IF StoreAlterOk(st.db, col, target)
              THEN [db |-> StoreAlter(st.db, col, target),
                    cols |-> [st.cols EXCEPT ![col] = target],
                    stmts |-> Append(st.stmts,
                        AlterStmt(col, oldType, target,
                                  UsingClause(oldType, target), TRUE)),
                    err |-> FALSE]
              ELSE [st EXCEPT
                    !.stmts = Append(st.stmts,
                        AlterStmt(col, oldType, target,
                                  UsingClause(oldType, target), FALSE)),
                    !.err = TRUE]

RECURSIVE promoteColumns(_, _, _, _)
promoteColumns(st, row, order, i) ==
    IF i > Len(order) \/ st.err THEN st
    ELSE promoteColumns(promoteColumnsStep(st, row, order[i]), row, order,
                        i + 1)

\* getFieldsFromMap: user:{id:123} gives user_id with the type of 123
getFieldsFromMap(value, parentKey) ==
    IF value.k = "map"
    THEN LET pairs == {<<ComposeKey(parentKey, x),
                         duckDbTypeFromInput(value.m[x])>> :
                            x \in DOMAIN value.m}
         IN [kk \in {q[1] : q \in pairs} |->
                (CHOOSE q \in pairs : q[1] = kk)[2]]
    ELSE EmptyMap

\* the inner loop of addMissingColumns over columnsToAdd
RECURSIVE addColumns(_, _, _)
addColumns(st, toAdd, todo) ==
    IF todo = {} \/ st.err THEN st
    ELSE LET col == CHOOSE x \in todo : TRUE
             type == toAdd[col]
         IN IF StoreAddOk(st.db, col, type)
            THEN addColumns([db |-> StoreAdd(st.db, col, type),
                             stmts |-> Append(st.stmts, AddStmt(col, type, TRUE)),
                             err |-> FALSE],
                            toAdd, todo \ {col})
            ELSE [st EXCEPT
                    !.stmts = Append(st.stmts, AddStmt(col, type, FALSE)),
                    !.err = TRUE]

\* one iteration of the range loop of addMissingColumns
addMissingColumnsStep(st, existingCols, row, col) ==
    IF col \in DOMAIN existingCols THEN st
    ELSE LET type == duckDbTypeFromInput(row[col])
             columnsToAdd ==
                IF type = JsonMap THEN getFieldsFromMap(row[col], col)
                ELSE [x \in {col} |-> type]
         IN addColumns(st, columnsToAdd, DOMAIN columnsToAdd)

RECURSIVE addMissingColumns(_, _, _, _, _)
addMissingColumns(st, existingCols, row, order, i) ==
    IF i > Len(order) \/ st.err THEN st
    ELSE addMissingColumns(
            addMissingColumnsStep(st, existingCols, row, order[i]),
            existingCols, row, order, i + 1)

\* what one Write call did: its row, the flattened row, the columns it read
\* (cols0: after ensureTableExists, colsP: after promoteColumns), the
\* statements it sent in order, the row it inserted and whether it returned
\* an error; stage names the step of Write that returned ("early": the
\* length check, "create", "promote", "add" and "insert": the step that
\* failed, "done": the end of Write)
WriteLog(row, stage, flat, before, cols0, colsP, stmts, ins, err) ==
    [kind |-> "write", row |-> row, stage |-> stage, flat |-> flat,
     before |-> before, cols0 |-> cols0, colsP |-> colsP, stmts |-> stmts,
     ins |-> ins, err |-> err]

WriteOutcome(db, inserted, log) ==
    [db |-> db, inserted |-> inserted, log |-> log]

\* Write from insertRow on, after the columns were added
WriteInsert(db0, row, flat, e, p, a) ==
    LET ins == preprocessRow(flat, p.cols)
        ok == StoreInsertOk(a.db, ins)
        stmts == <<QueryStmt>> \o e.stmts \o p.stmts \o a.stmts
                    \o <<InsertStmt(ok)>>
    IN WriteOutcome(a.db, ok,
            WriteLog(row, IF ok THEN "done" ELSE "insert", flat, db0, e.cols,
                     p.cols, stmts, IF ok THEN ins ELSE EmptyMap, ~ok))

\* Write from addMissingColumns on, after the promotions
WriteAdd(db0, row, flat, e, p) ==
    IF p.err
    THEN {WriteOutcome(p.db, FALSE,
            WriteLog(row, "promote", flat, db0, e.cols, p.cols,
                     <<QueryStmt>> \o e.stmts \o p.stmts, EmptyMap, TRUE))}
    ELSE {LET a == addMissingColumns(
                        [db |-> p.db, stmts |-> <<>>, err |-> FALSE],
                        p.cols, flat, order, 1)
          IN IF a.err
             THEN WriteOutcome(a.db, FALSE,
                    WriteLog(row, "add", flat, db0, e.cols, p.cols,
                             <<QueryStmt>> \o e.stmts \o p.stmts \o a.stmts,
                             EmptyMap, TRUE))
             ELSE WriteInsert(db0, row, flat, e, p, a) :
            order \in Perms(DOMAIN flat)}

\* Write from promoteColumns on, for one flattened row
WritePromote(db0, row, flat, e) ==
    UNION {WriteAdd(db0, row, flat, e,
                    promoteColumns(
                        [db |-> e.db, cols |-> e.cols, stmts |-> <<>>,
                         err |-> FALSE],
                        flat, order, 1)) :
            order \in Perms(DOMAIN flat)}

\* every way Write(table, row) can run against a table with columns db: the
\* resulting columns, whether a row was inserted, and the log of the call
WriteOutcomes(db, row) ==
    IF RowIsTrivial(row)
    THEN {WriteOutcome(db, FALSE,
            WriteLog(row, "early", EmptyMap, db, EmptyMap, EmptyMap, <<>>,
                     EmptyMap, FALSE))}
    ELSE LET cols == getCurrentColumns(db)
             e == ensureTableExists(db, cols)
         IN IF e.err
            THEN {WriteOutcome(e.db, FALSE,
                    WriteLog(row, "create", EmptyMap, db, e.cols, e.cols,
                             <<QueryStmt>> \o e.stmts, EmptyMap, TRUE))}
            ELSE UNION {WritePromote(db, row, flat, e) :
                            flat \in FlattenSet(row)}

\* the types each column has left, after a call that turned db into db2
LeftAfter(lft, db, db2) ==
    [col \in DOMAIN db2 |->
        (IF col \in DOMAIN lft THEN lft[col] ELSE {})
        \cup (IF col \in DOMAIN db /\ db[col] # db2[col] THEN {db[col]} ELSE {})]

----------------------------------------------------------------------------
(* The rows callers write, and the tables they write to *)

S_date == <<"2", "3", "3", "3", "-", "0", "3", "-", "0", "3">>
S_time == <<"1", "2", ":", "0", "0", ":", "0", "0">>
S_timestamp ==
    <<"2", "4", "4", "4", "-", "0", "4", "-", "0", "4", " ",
      "2", "3", ":", "5", "5", ":", "0", "2">>
S_text == <<"h", "i">>

\* a time.Time on 2444-04-04
T_now == TimeV(<<"2", "4", "4", "4", "-", "0", "4", "-", "0", "4">>)

I64_70000 == <<0, 0, 1, 4464>>
I64_2p32 == <<0, 1, 0, 0>>
I64_m40000 == <<65535, 65535, 65535, 25536>>

\* one value for every type duckDbTypeFromInput can return
ColumnValues ==
    {NilV, BoolV(TRUE),
     IntV(I64Small(1)), IntV(I64Small(120)), IntV(I64Small(300)),
     IntV(I64_70000), IntV(I64_2p32),
     IntV(I64Minus(5)), IntV(I64Minus(200)), IntV(I64_m40000),
     IntV(I64_m2147483649),
     FloatV("fin", 150, 0), FloatV("fin", 100, 100), FloatV("fin", 175, 308),
     StrV(S_date), StrV(S_time), StrV(S_timestamp), StrV(S_text),
     T_now,
     ArrV(<<IntV(I64Small(1)), IntV(I64Small(2))>>),
     MapV([x \in {"b"} |-> IntV(I64Small(1))]),
     OtherV}

Row1(k1, v1) == [x \in {k1} |-> v1]
Row2(k1, v1, k2, v2) == [x \in {k1, k2} |-> IF x = k1 THEN v1 ELSE v2]
Row3(k1, v1, k2, v2, k3, v3) ==
    [x \in {k1, k2, k3} |-> IF x = k1 THEN v1 ELSE IF x = k2 THEN v2 ELSE v3]

WriteRows ==
    \* a timestamp and one field, of every kind of value
    {Row2("timestamp", T_now, "a", v) : v \in ColumnValues}
    \* at most one field
    \cup {EmptyMap, Row1("timestamp", T_now), Row1("a", IntV(I64Small(1)))}
    \* rows that were not built by NewRow
    \cup {Row2("timestamp", StrV(S_text), "a", IntV(I64Small(1))),
          Row2("timestamp", NilV, "a", IntV(I64Small(1))),
          Row2("a", IntV(I64Small(1)), "c", StrV(S_text))}
    \* two fields besides the timestamp
    \cup {Row3("timestamp", T_now, "a", IntV(I64Small(300)), "c", OtherV),
          Row3("timestamp", T_now, "a", StrV(S_text), "c", IntV(I64Small(1)))}
    \* two fields that are objects without members: nothing is left of the
    \* row once it is flattened
    \cup {Row2("a", MapV(EmptyMap), "c", MapV(EmptyMap))}

\* the table does not exist, or exists with a column `a` of some type
InitialSchemas ==
    {EmptyMap}
    \cup {Row2("timestamp", Timestamp, "a", t) : t \in ValueTypes}

WriteInit ==
    /\ schema \in InitialSchemas
    /\ nrows = 0
    /\ last = [kind |-> "none"]
    /\ left = [col \in DOMAIN schema |-> {}]
    /\ table = TableUntracked
    /\ wr = [p \in Writers |-> WriterIdle]
    \* the registry is not used
    /\ connections = EmptyMap
    /\ mutexW = NoProc
    /\ readers = {}
    /\ pc = [p \in Procs |-> "idle"]
    /\ arg = [p \in Procs |-> NoPath]
    /\ result = [p \in Procs |-> NoResult]
    /\ nextId = 1
    /\ closedW = {}
    /\ ncalls = 0
    /\ returned = {}
    /\ opens = [q \in Paths |-> 0]
    /\ deletes = [q \in Paths |-> 0]
    /\ attempts = [q \in Paths |-> 0]

\* the single writer calls Write(table, row)
Write(row) ==
    /\ nrows < MaxRows
    /\ \E out \in WriteOutcomes(schema, row) :
        /\ schema' = out.db
        /\ nrows' = IF out.inserted THEN nrows + 1 ELSE nrows
        /\ last' = out.log
        /\ left' = LeftAfter(left, schema, out.db)
        /\ table' = IF table.tracked
                     THEN TableOf(StoreApplyAll(table.rows, out.db,
                                                out.log.stmts, out.log.ins, 1))
                     ELSE table
    /\ UNCHANGED <<regVars, wr>>

WriteNext == \E row \in WriteRows : Write(row)

SpecWrite == WriteInit /\ [][WriteNext]_vars

----------------------------------------------------------------------------
(* Claims about the schema writer *)

\* the statements of a log with one of the given operations
StmtsOf(log, ops) == {i \in DOMAIN log.stmts : log.stmts[i].op \in ops}

\* C6: a Write of a row with at most one field returns success and sends no
\* statement to the store (no catalogue query, CREATE TABLE, ALTER or
\* INSERT): the table's existence, columns and rows are as before.
C6_TrivialRowTouchesNothing ==
    [][(last'.kind = "write" /\ Cardinality(DOMAIN last'.row) <= 1) =>
            /\ ~last'.err
            /\ last'.stmts = <<>>
            /\ schema' = schema
            /\ nrows' = nrows]_vars

\* a one-field row was written and the table still does not exist
C6_Witness ==
    /\ last.kind = "write"
    /\ Cardinality(DOMAIN last.row) = 1
    /\ ~last.err
    /\ schema = EmptyMap
    /\ nrows = 0

\* C7 (as stated): every table has a column timestamp of type Timestamp and
\* no Write changes the type of that column.
C7_TimestampColumnIsTimestamp ==
    schema # EmptyMap =>
        /\ "timestamp" \in DOMAIN schema
        /\ schema["timestamp"] = Timestamp

\* C8 (as stated): whenever a Write changes the type of a column from T to
\* T2, T2 is an upper bound of T under PromoteTo (T2.PromoteTo(T) = T2), the
\* range of an integer T lies within the range of an integer T2, and T2 is
\* not a type the column has left before.
C8_NeverNarrowed ==
    [][\A col \in DOMAIN schema :
        (col \in DOMAIN schema' /\ schema'[col] # schema[col]) =>
            /\ PromoteTo(schema'[col], schema[col]) = Promoted(schema'[col])
            /\ (schema[col] \in IntegerTypes /\ schema'[col] \in IntegerTypes)
                    => RangeWithin(schema[col], schema'[col])
            /\ schema'[col] \notin left[col]]_vars

C10_RepeatedWriteStable ==
    [][(/\ last.kind = "write"
        /\ last.stage = "done"
        /\ last'.kind = "write"
        /\ last'.row = last.row) =>
            StmtsOf(last', {"alter", "add"}) = {}]_vars

\* C29: a Write that returns an error inserts no row; the INSERT is the last
\* statement Write sends and it is sent only after every statement before
\* it (schema read, table creation, promotions, additions) succeeded; and a
\* Write that returns success on a row of two or more fields inserts
\* exactly one row
C29_ErrorInsertsNoRow ==
    [][last'.kind = "write" =>
        LET log == last'
            inserts == StmtsOf(log, {"insert"})
        IN /\ log.err => nrows' = nrows
           /\ \A i \in inserts :
                /\ i = Len(log.stmts)
                /\ \A j \in 1..(i - 1) : log.stmts[j].ok
           /\ (~log.err /\ Cardinality(DOMAIN log.row) >= 2) =>
                /\ nrows' = nrows + 1
                /\ Cardinality(inserts) = 1]_vars

\* after a row was inserted, a Write of two fields failed at its INSERT,
\* and the table still has the one row
C29_Witness ==
    /\ last.kind = "write"
    /\ last.err
    /\ last.stage = "insert"
    /\ Cardinality(DOMAIN last.row) >= 2
    /\ nrows = 1

----------------------------------------------------------------------------
(* Text: a string is a sequence of characters (one-character strings; the
   escape character 0x1b is written "ESC").  Go index i is index i + 1 here
   and Go's "not found" (-1) is 0.  The definitions follow the Go library on
   texts over Chars. *)

DigitChars == {"0", "1", "2", "3", "4", "5", "6", "7", "8", "9"}
Chars ==
    DigitChars
    \cup {"a", "b", "k", "l", "m", "n", "u", "G", "/", " ", "\"", "{", "}",
          "[", "]", "<", ">", ":", ",", ";", "=", "-", ".", "@", "ESC"}

\* unicode.IsSpace, on Chars
IsSpace(c) == c = " "

\* the Go string as a TLA+ string (the keys of a Row)
RECURSIVE Str(_)
Str(s) == IF s = <<>> THEN "" ELSE Head(s) \o Str(Tail(s))

\* s[i:] and s[i:j] of Go, with positions of this model (from, to inclusive)
From(s, i) == SubSeq(s, i, Len(s))
Upto(s, j) == SubSeq(s, 1, j)

\* strings.Index(s, c) and strings.LastIndex(s, c) for a one-character c
Index(s, c) ==
    IF \E i \in DOMAIN s : s[i] = c
    THEN CHOOSE i \in DOMAIN s : s[i] = c /\ \A j \in 1..(i - 1) : s[j] # c
    ELSE 0
LastIndex(s, c) ==
    IF \E i \in DOMAIN s : s[i] = c
    THEN CHOOSE i \in DOMAIN s :
            s[i] = c /\ \A j \in (i + 1)..Len(s) : s[j] # c
    ELSE 0

HasPrefix(s, c) == Len(s) >= 1 /\ s[1] = c
HasSuffix(s, c) == Len(s) >= 1 /\ s[Len(s)] = c
Contains(s, c) == Index(s, c) # 0

\* strings.TrimSpace
RECURSIVE TrimLeft(_)
TrimLeft(s) ==
    IF s # <<>> /\ IsSpace(Head(s)) THEN TrimLeft(Tail(s)) ELSE s
RECURSIVE TrimRight(_)
TrimRight(s) ==
    IF s # <<>> /\ IsSpace(s[Len(s)])
    THEN TrimRight(SubSeq(s, 1, Len(s) - 1)) ELSE s
TrimSpace(s) == TrimRight(TrimLeft(s))

\* strings.Split(s, c): the pieces between the occurrences of c
RECURSIVE Split(_, _)
Split(s, c) ==
    LET i == Index(s, c) IN
    IF i = 0 THEN <<s>>
    ELSE <<SubSeq(s, 1, i - 1)>> \o Split(From(s, i + 1), c)

\* strings.Fields: the maximal runs of non-space characters
RECURSIVE Fields(_)
Fields(s) ==
    LET t == TrimLeft(s)
        i == Index(t, " ")
    IN IF t = <<>> THEN <<>>
       ELSE IF i = 0 THEN <<t>>
       ELSE <<SubSeq(t, 1, i - 1)>> \o Fields(From(t, i + 1))

\* strings.Join(parts, " ")
RECURSIVE Join(_)
Join(parts) ==
    IF parts = <<>> THEN <<>>
    ELSE IF Len(parts) = 1 THEN parts[1]
    ELSE parts[1] \o <<" ">> \o Join(Tail(parts))

\* a pair of surrounding quotes (or brackets) removed when both are there
Unwrap(s, open, close) ==
    IF Len(s) >= 2 /\ s[1] = open /\ s[Len(s)] = close
    THEN SubSeq(s, 2, Len(s) - 1) ELSE s

\* the character at a position, "" past the end
At(s, i) == IF i \in DOMAIN s THEN s[i] ELSE ""

IsDigit(c) == c \in DigitChars
DigitValue(c) == CHOOSE d \in 0..9 : Digits[d + 1] = c
AllDigits(s) == \A i \in DOMAIN s : IsDigit(s[i])

\* the end of the run of digits (of spaces) that starts at i: the first
\* position from i on that holds no digit (no space)
RunEnd(s, i, in(_)) ==
    CHOOSE j \in i..(Len(s) + 1) :
        /\ \A x \in i..(j - 1) : in(s[x])
        /\ ~in(At(s, j))
DigitRunEnd(s, i) == IF i > Len(s) THEN i ELSE RunEnd(s, i, IsDigit)
SkipSpace(s, i) == IF i > Len(s) THEN i ELSE RunEnd(s, i, IsSpace)

\* ---- decimal text to int64 (strconv.Atoi, strconv.ParseInt base 10) ----

\* 10000 * v + d on the four limbs, with the carry out of the top limb
MulAdd10000(v, d) ==
    LET x4 == v[4] * 10000 + d
        x3 == v[3] * 10000 + (x4 \div Limb)
        x2 == v[2] * 10000 + (x3 \div Limb)
        x1 == v[1] * 10000 + (x2 \div Limb)
    IN [v |-> <<x1 % Limb, x2 % Limb, x3 % Limb, x4 % Limb>>,
        over |-> x1 \div Limb # 0]

\* the number written by the four digits that end at position hi (fewer at
\* the start of the text)
DigitAt(s, i) == IF i \in DOMAIN s THEN DigitValue(s[i]) ELSE 0
FourDigits(s, hi) ==
    1000 * DigitAt(s, hi - 3) + 100 * DigitAt(s, hi - 2)
        + 10 * DigitAt(s, hi - 1) + DigitAt(s, hi)

\* the magnitude of a run of digits as an unsigned 64-bit number, four
\* digits at a time, the group that ends at hi next
RECURSIVE DecMagnitude(_, _, _)
DecMagnitude(s, hi, acc) ==
    IF hi > Len(s) THEN acc
    ELSE LET n == MulAdd10000(acc.v, FourDigits(s, hi)) IN
         IF acc.over \/ n.over
         THEN DecMagnitude(s, hi + 4, [v |-> n.v, over |-> TRUE])
         ELSE DecMagnitude(s, hi + 4, [v |-> n.v, over |-> FALSE])

\* the end of the first group of digits
FirstGroup(s) == IF Len(s) % 4 = 0 THEN 4 ELSE Len(s) % 4

\* two's complement of v
I64Negate(v) ==
    LET y4 == (65535 - v[4]) + 1
        y3 == (65535 - v[3]) + (y4 \div Limb)
        y2 == (65535 - v[2]) + (y3 \div Limb)
        y1 == (65535 - v[1]) + (y2 \div Limb)
    IN <<y1 % Limb, y2 % Limb, y3 % Limb, y4 % Limb>>

\* strconv.Atoi / ParseInt(s, 10, 64): an optional "-", then digits only;
\* [ok, v].  On a syntax error v is 0, on a value outside int64 v is the
\* nearest int64.
Atoi(s) ==
    LET neg == HasPrefix(s, "-")
        ds == IF neg THEN Tail(s) ELSE s
        mag == DecMagnitude(ds, FirstGroup(ds),
                            [v |-> <<0, 0, 0, 0>>, over |-> FALSE])
        fits == /\ ~mag.over
                /\ \/ mag.v[1] < 32768
                   \/ neg /\ mag.v = <<32768, 0, 0, 0>>
    IN IF ds = <<>> \/ ~AllDigits(ds)
       THEN [ok |-> FALSE, v |-> <<0, 0, 0, 0>>]
       ELSE IF ~fits
       THEN [ok |-> FALSE,
             v |-> IF neg THEN <<32768, 0, 0, 0>>
                   ELSE <<32767, 65535, 65535, 65535>>]
       ELSE [ok |-> TRUE, v |-> IF neg THEN I64Negate(mag.v) ELSE mag.v]

\* Go's v / 8 and v % 8 on int64 (the quotient truncated toward zero)
I64DivMod8(v) ==
    LET neg == I64Neg(v)
        mag == IF neg THEN I64Negate(v) ELSE v
        c1 == mag[1]
        c2 == (c1 % 8) * Limb + mag[2]
        c3 == (c2 % 8) * Limb + mag[3]
        c4 == (c3 % 8) * Limb + mag[4]
        q == <<c1 \div 8, c2 \div 8, c3 \div 8, c4 \div 8>>
        r == <<0, 0, 0, c4 % 8>>
    IN [div |-> IF neg THEN I64Negate(q) ELSE q,
        mod |-> IF neg THEN I64Negate(r) ELSE r]

\* ---- decimal text to float64 (strconv.ParseFloat(s, 64)) ----

\* the float64 of the digits all with the decimal point after the first
\* intLen of them: its first three significant digits and its exponent
FloatOfDigits(all, intLen) ==
    LET nz == {i \in DOMAIN all : all[i] # "0"}
        p == CHOOSE i \in nz : \A j \in nz : i <= j
        d(i) == IF i \in DOMAIN all THEN DigitValue(all[i]) ELSE 0
    IN IF nz = {} THEN FloatV("fin", 0, 0)
       ELSE FloatV("fin", 100 * d(p) + 10 * d(p + 1) + d(p + 2), intLen - p)

\* on Chars: "nan", or an optional "-", digits with at most one "." among
\* them and at least one digit; [ok, v]
ParseFloat(s) ==
    LET neg == HasPrefix(s, "-")
        body == IF neg THEN Tail(s) ELSE s
        dot == Index(body, ".")
        int == IF dot = 0 THEN body ELSE SubSeq(body, 1, dot - 1)
        frac == IF dot = 0 THEN <<>> ELSE From(body, dot + 1)
    IN IF s = <<"n", "a", "n">> THEN [ok |-> TRUE, v |-> FloatV("nan", 0, 0)]
       ELSE IF AllDigits(int) /\ AllDigits(frac) /\ int \o frac # <<>>
       THEN [ok |-> TRUE, v |-> FloatOfDigits(int \o frac, Len(int))]
       ELSE [ok |-> FALSE, v |-> FloatV("fin", 0, 0)]

\* ---- encoding/json ----

\* a json.Number: the text of a number, of a Go type that is not string
NumberV(s) == [k |-> "number", s |-> s]

JsonFail == [ok |-> FALSE, v |-> NilV, next |-> 0]
JsonOk(v, next) == [ok |-> TRUE, v |-> v, next |-> next]

\* a string literal at i: up to the next quote, no control character inside
\* (Chars has no backslash)
JsonString(s, i) ==
    LET j == Index(From(s, i + 1), "\"") IN
    IF At(s, i) # "\"" \/ j = 0 THEN JsonFail
    ELSE IF \E x \in (i + 1)..(i + j - 1) : s[x] = "ESC" THEN JsonFail
    ELSE JsonOk(StrV(SubSeq(s, i + 1, i + j - 1)), i + j + 1)

\* a number literal at i: -? (0 | [1-9][0-9]*) (. [0-9]+)?
JsonNumber(s, i) ==
    LET p1 == IF At(s, i) = "-" THEN i + 1 ELSE i
        p2 == IF At(s, p1) = "0" THEN p1 + 1 ELSE DigitRunEnd(s, p1)
        p3 == IF At(s, p2) = "." THEN DigitRunEnd(s, p2 + 1) ELSE p2
    IN IF ~IsDigit(At(s, p1)) THEN JsonFail
       ELSE IF At(s, p2) = "." /\ p3 = p2 + 1 THEN JsonFail
       ELSE JsonOk(NumberV(SubSeq(s, i, p3 - 1)), p3)

JsonNull(s, i) ==
    IF i + 3 <= Len(s) /\ SubSeq(s, i, i + 3) = <<"n", "u", "l", "l">>
    THEN JsonOk(NilV, i + 4) ELSE JsonFail

RECURSIVE JsonValue(_, _)
RECURSIVE JsonMembers(_, _, _)
RECURSIVE JsonElements(_, _, _)

\* the members of an object from its first key at or after i
JsonMembers(s, i, acc) ==
    LET key == JsonString(s, SkipSpace(s, i))
        colon == SkipSpace(s, key.next)
        val == JsonValue(s, colon + 1)
        sep == SkipSpace(s, val.next)
        m == MapPut(acc, Str(key.v.s), val.v)
    IN IF ~key.ok \/ At(s, colon) # ":" THEN JsonFail
       ELSE IF ~val.ok THEN JsonFail
       ELSE IF At(s, sep) = "," THEN JsonMembers(s, sep + 1, m)
       ELSE IF At(s, sep) = "}" THEN JsonOk(MapV(m), sep + 1)
       ELSE JsonFail

\* the elements of an array from its first element at or after i
JsonElements(s, i, acc) ==
    LET val == JsonValue(s, i)
        sep == SkipSpace(s, val.next)
        items == Append(acc, val.v)
    IN IF ~val.ok THEN JsonFail
       ELSE IF At(s, sep) = "," THEN JsonElements(s, sep + 1, items)
       ELSE IF At(s, sep) = "]" THEN JsonOk(ArrV(items), sep + 1)
       ELSE JsonFail

\* one JSON value at or after i (leading spaces skipped); [ok, v, next]
JsonValue(s, i0) ==
    LET i == SkipSpace(s, i0)
        c == At(s, i)
        inner == SkipSpace(s, i + 1)
    IN IF c = "{"
       THEN (IF At(s, inner) = "}" THEN JsonOk(MapV(EmptyMap), inner + 1)
             ELSE JsonMembers(s, i + 1, EmptyMap))
       ELSE IF c = "["
       THEN (IF At(s, inner) = "]" THEN JsonOk(ArrV(<<>>), inner + 1)
             ELSE JsonElements(s, i + 1, <<>>))
       ELSE IF c = "\"" THEN JsonString(s, i)
       ELSE IF c = "-" \/ IsDigit(c) THEN JsonNumber(s, i)
       ELSE IF c = "n" THEN JsonNull(s, i)
       ELSE JsonFail

\* numbers as json.Unmarshal stores them in an interface{}: float64
RECURSIVE NumbersAsFloat64(_)
NumbersAsFloat64(v) ==
    IF v.k = "number" THEN ParseFloat(v.s).v
    ELSE IF v.k = "map"
    THEN MapV([x \in DOMAIN v.m |-> NumbersAsFloat64(v.m[x])])
    ELSE IF v.k = "arr"
    THEN ArrV([x \in DOMAIN v.items |-> NumbersAsFloat64(v.items[x])])
    ELSE v

\* decoder.Decode(&data) with UseNumber, data a map[string]interface{}:
\* the first value of the text; an object fills the map (what follows it is
\* not read), null leaves the map nil, any other value is an error
DecodeUseNumber(l) ==
    LET r == JsonValue(l, 1) IN
    IF ~r.ok THEN [err |-> TRUE, data |-> EmptyMap]
    ELSE IF r.v.k = "map" THEN [err |-> FALSE, data |-> r.v.m]
    ELSE IF r.v.k = "nil" /\ At(l, r.next) \in {"", " "}
    THEN [err |-> FALSE, data |-> EmptyMap]
    ELSE [err |-> TRUE, data |-> EmptyMap]

\* json.Unmarshal(text, &jsonData), jsonData a map[string]interface{}: the
\* whole text is one value (spaces may follow); numbers become float64
Unmarshal(text) ==
    LET r == JsonValue(text, 1) IN
    IF ~r.ok \/ SkipSpace(text, r.next) <= Len(text)
    THEN [err |-> TRUE, data |-> EmptyMap]
    ELSE IF r.v.k = "map"
    THEN [err |-> FALSE, data |-> NumbersAsFloat64(r.v).m]
    ELSE IF r.v.k = "nil" THEN [err |-> FALSE, data |-> EmptyMap]
    ELSE [err |-> TRUE, data |-> EmptyMap]

----------------------------------------------------------------------------
(* Line parser: ParseLineToValues and its detectors.  A detector returns
   [ok, row]: ok is "the Row is not nil". *)

NilRow == [ok |-> FALSE, row |-> EmptyMap]
SomeRow(row) == [ok |-> TRUE, row |-> row]

\* stripAnsiCodes: every match of \x1b\[[0-9;]*m removed, leftmost first
IsAnsiParam(c) == IsDigit(c) \/ c = ";"
AnsiParamsEnd(s, i) == IF i > Len(s) THEN i ELSE RunEnd(s, i, IsAnsiParam)
\* the positions of s inside a match: a match starts at an escape character
\* and holds no other one, so no two matches overlap
AnsiMatched(s) ==
    {x \in DOMAIN s :
        \E i \in 1..x :
            /\ s[i] = "ESC" /\ At(s, i + 1) = "["
            /\ At(s, AnsiParamsEnd(s, i + 2)) = "m"
            /\ x <= AnsiParamsEnd(s, i + 2)}

\* the characters of s at the positions of keep, in their order
Kept(s, keep) ==
    [k \in 1..Cardinality(keep) |->
        s[CHOOSE p \in keep : Cardinality({q \in keep : q < p}) = k - 1]]

stripAnsiCodes(s) == Kept(s, (DOMAIN s) \ AnsiMatched(s))

\* the value parseJSON stores for a decoded value: a json.Number becomes an
\* int when Int64() succeeds, else a float64, else its text
CoerceNumber(v) ==
    IF v.k # "number" THEN v
    ELSE IF Atoi(v.s).ok THEN IntV(Atoi(v.s).v)
    ELSE IF ParseFloat(v.s).ok THEN ParseFloat(v.s).v
    ELSE StrV(v.s)

parseJSONNilWhenEmpty(l) ==
    LET d == DecodeUseNumber(l) IN
    IF d.err \/ DOMAIN d.data = {} THEN NilRow
    ELSE SomeRow([k \in DOMAIN d.data |-> CoerceNumber(d.data[k])])
parseJSON(l) ==
    LET d == DecodeUseNumber(l) IN
    IF d.err THEN NilRow
    ELSE SomeRow([k \in DOMAIN d.data |-> CoerceNumber(d.data[k])])

\* parseStructuredData: the key="value" tokens of the bracket contents
RECURSIVE StructuredPairs(_, _, _)
StructuredPairs(parts, i, acc) ==
    IF i > Len(parts) THEN acc
    ELSE LET part == parts[i]
             eqIndex == Index(part, "=")
             key == SubSeq(part, 1, eqIndex - 1)
             value == Unwrap(From(part, eqIndex + 1), "\"", "\"")
         IN IF eqIndex # 0
            THEN StructuredPairs(parts, i + 1,
                                 MapPut(acc, Str(key), StrV(value)))
            ELSE StructuredPairs(parts, i + 1, acc)

parseStructuredData(sd) ==
    LET parts == Fields(sd) IN
    IF Len(parts) = 0 THEN EmptyMap
    ELSE IF Contains(parts[1], "@")
    THEN StructuredPairs(Tail(parts), 1,
                         MapPut(EmptyMap, "sd_id", StrV(parts[1])))
    ELSE StructuredPairs(parts, 1, EmptyMap)

\* the six header fields of RFC5424 and what follows them
Syslog5424(rest, pri) ==
    LET parts == Fields(rest)
        sdStart == Index(rest, "[")
        sdEnd == Index(rest, "]")
        head == pri @@ [x \in {"version", "timestamp", "hostname",
                               "app_name", "procid", "msgid"} |->
                    CASE x = "version" -> IntV(Atoi(parts[1]).v)
                      [] x = "timestamp" -> StrV(parts[2])
                      [] x = "hostname" -> StrV(parts[3])
                      [] x = "app_name" -> StrV(parts[4])
                      [] x = "procid" -> StrV(parts[5])
                      [] x = "msgid" -> StrV(parts[6])]
    IN IF Len(parts) < 7 THEN NilRow
       ELSE IF sdStart # 0 /\ sdEnd # 0 /\ sdEnd > sdStart
       THEN SomeRow(MapPut(MapPut(head, "structured_data",
                MapV(parseStructuredData(
                        SubSeq(rest, sdStart + 1, sdEnd - 1)))),
                "message", StrV(TrimSpace(From(rest, sdEnd + 1)))))
       ELSE SomeRow(MapPut(MapPut(head, "structured_data", MapV(EmptyMap)),
                "message", StrV(TrimSpace(rest))))

\* RFC3164: timestamp hostname tag: message
Syslog3164(rest, pri) ==
    LET parts == Fields(rest)
        timestamp == parts[1] \o <<" ">> \o parts[2] \o <<" ">> \o parts[3]
        remaining == Join(SubSeq(parts, 5, Len(parts)))
        colon == Index(remaining, ":")
    IN IF Len(parts) < 4 THEN NilRow
       ELSE IF colon = 0 THEN NilRow
       ELSE SomeRow(pri @@ [x \in {"timestamp", "hostname", "tag",
                                   "message"} |->
                CASE x = "timestamp" -> StrV(timestamp)
                  [] x = "hostname" -> StrV(parts[4])
                  [] x = "tag" ->
                        StrV(TrimSpace(SubSeq(remaining, 1, colon - 1)))
                  [] x = "message" ->
                        StrV(TrimSpace(From(remaining, colon + 1)))])

parseSyslog(l) ==
    LET endPri == Index(l, ">")
        priority == Atoi(SubSeq(l, 2, endPri - 1))
        rest == From(l, endPri + 1)
        pri == [x \in {"priority", "facility", "severity"} |->
                    CASE x = "priority" -> IntV(priority.v)
                      [] x = "facility" -> IntV(I64DivMod8(priority.v).div)
                      [] x = "severity" -> IntV(I64DivMod8(priority.v).mod)]
    IN IF ~HasPrefix(l, "<") THEN NilRow
       ELSE IF endPri = 0 THEN NilRow
       ELSE IF ~priority.ok THEN NilRow
       ELSE IF Len(rest) > 0 /\ IsDigit(rest[1]) THEN Syslog5424(rest, pri)
       ELSE Syslog3164(rest, pri)

\* the index of the part that closes a quoted text opened at part i: the
\* first part after i that ends with a quote, or the last part
RECURSIVE ClosingPart(_, _)
ClosingPart(parts, i) ==
    IF i >= Len(parts) THEN Len(parts)
    ELSE IF HasSuffix(parts[i + 1], "\"") THEN i + 1
    ELSE ClosingPart(parts, i + 1)

\* parseQuotedFieldsFromSlice: the fields of the parts from i on
RECURSIVE QuotedFields(_, _, _)
QuotedFields(parts, i, fields) ==
    IF i > Len(parts) THEN fields
    ELSE LET part == parts[i]
             multi == ~HasSuffix(part, "\"")
             \* i after the inner loop: the closing part, or len(parts)
             stop == IF ~multi THEN i
                     ELSE IF \E j \in (i + 1)..Len(parts) :
                                HasSuffix(parts[j], "\"")
                     THEN ClosingPart(parts, i)
                     ELSE Len(parts) + 1
             quotedStr == Join(SubSeq(parts, i,
                              IF stop > Len(parts) THEN Len(parts) ELSE stop))
         IN IF HasPrefix(part, "\"")
            THEN QuotedFields(parts, stop + 1,
                    IF Len(quotedStr) >= 2 /\ quotedStr[1] = "\""
                       /\ quotedStr[Len(quotedStr)] = "\""
                    THEN Append(fields,
                                SubSeq(quotedStr, 2, Len(quotedStr) - 1))
                    ELSE fields)
            ELSE QuotedFields(parts, i + 1, Append(fields, part))

parseQuotedFieldsFromSlice(parts) == QuotedFields(parts, 1, <<>>)

\* the positions of the parts that start with a quote
QuotedParts(parts) == {i \in DOMAIN parts : HasPrefix(parts[i], "\"")}

\* method, path and protocol of the request, or the request as it is
RequestFields(request) ==
    LET requestParts == Split(request, " ") IN
    IF Len(requestParts) >= 3
    THEN [x \in {"method", "path", "protocol"} |->
            CASE x = "method" -> StrV(requestParts[1])
              [] x = "path" -> StrV(requestParts[2])
              [] x = "protocol" -> StrV(requestParts[3])]
    ELSE IF Len(requestParts) >= 2
    THEN [x \in {"method", "path", "protocol"} |->
            CASE x = "method" -> StrV(requestParts[1])
              [] x = "path" -> StrV(requestParts[2])
              [] x = "protocol" ->
                    StrV(<<"H", "T", "T", "P", "/", "1", ".", "0">>)]
    ELSE [x \in {"request"} |-> StrV(request)]

\* referer, user_agent and forwarded_for from the quoted fields
TrailingFields(quotedFields) ==
    LET dash == <<"-">>
        referer ==
            IF Len(quotedFields) > 0 /\ quotedFields[1] # dash
               /\ quotedFields[1] # <<>>
            THEN [x \in {"referer"} |-> StrV(quotedFields[1])] ELSE EmptyMap
        agent ==
            IF Len(quotedFields) > 1 /\ quotedFields[2] # dash
               /\ quotedFields[2] # <<>>
            THEN [x \in {"user_agent"} |-> StrV(quotedFields[2])]
            ELSE EmptyMap
        forwarded ==
            IF Len(quotedFields) > 2 /\ quotedFields[3] # dash
            THEN [x \in {"forwarded_for"} |-> StrV(quotedFields[3])]
            ELSE EmptyMap
    IN referer @@ agent @@ forwarded

parseCLF(l) ==
    LET parts == Fields(l)
        n == Len(parts)
        requestIndex == CHOOSE i \in QuotedParts(parts) :
                            \A j \in QuotedParts(parts) : i <= j
        bracketed == HasPrefix(parts[4], "[")
        host == IF parts[1] # <<"-">>
                THEN [x \in {"remote_host"} |-> StrV(parts[1])]
                ELSE EmptyMap
        logname == IF parts[2] # <<"-">>
                   THEN [x \in {"remote_logname"} |-> StrV(parts[2])]
                   ELSE EmptyMap
        user == IF bracketed /\ parts[3] # <<"-">>
                THEN [x \in {"remote_user"} |-> StrV(parts[3])]
                ELSE EmptyMap
        timestampStart == IF bracketed THEN 4 ELSE 3
        joined == Join(SubSeq(parts, timestampStart, requestIndex - 1))
        timestamp ==
            IF requestIndex > timestampStart
            THEN [x \in {"timestamp"} |->
                    StrV(IF bracketed THEN Unwrap(joined, "[", "]")
                         ELSE joined)]
            ELSE EmptyMap
        \* the part where the request ends
        actualRequestEndIndex ==
            IF HasSuffix(parts[requestIndex], "\"") THEN requestIndex
            ELSE ClosingPart(parts, requestIndex)
        request == Unwrap(Join(SubSeq(parts, requestIndex,
                                      actualRequestEndIndex)), "\"", "\"")
        statusIndex == actualRequestEndIndex + 1
        status == IF statusIndex <= n /\ Atoi(parts[statusIndex]).ok
                  THEN [x \in {"status"} |->
                            IntV(Atoi(parts[statusIndex]).v)]
                  ELSE EmptyMap
        sizeIndex == actualRequestEndIndex + 2
        zero == [x \in {"response_size"} |-> IntV(I64Small(0))]
        size == IF sizeIndex <= n /\ parts[sizeIndex] # <<"-">>
                THEN (IF Atoi(parts[sizeIndex]).ok
                      THEN [x \in {"response_size"} |->
                                IntV(Atoi(parts[sizeIndex]).v)]
                      ELSE EmptyMap)
                ELSE zero
        remainingStart == actualRequestEndIndex + 3
        trailing ==
            IF remainingStart <= n
            THEN TrailingFields(parseQuotedFieldsFromSlice(
                                    SubSeq(parts, remainingStart, n)))
            ELSE EmptyMap
    IN IF n < 6 THEN NilRow
       ELSE IF QuotedParts(parts) = {} THEN NilRow
       ELSE IF requestIndex < 4 THEN NilRow
       ELSE IF sizeIndex > n /\ bracketed THEN NilRow
       ELSE SomeRow(host @@ logname @@ user @@ timestamp
                    @@ RequestFields(request) @@ status @@ size @@ trailing)

\* the value of a logfmt pair as a number when it reads as one
LogfmtValue(value) ==
    IF Atoi(value).ok THEN IntV(Atoi(value).v)
    ELSE IF ParseFloat(value).ok THEN ParseFloat(value).v
    ELSE StrV(value)

\* the inner loop of parseLogfmt over the parts of a quoted value, from
\* part i on: [value, i] when the loop is left
RECURSIVE LogfmtQuoted(_, _, _)
LogfmtQuoted(parts, i, value) ==
    IF i > Len(parts) THEN [value |-> value, i |-> i]
    ELSE LET nextPart == parts[i] IN
         IF HasSuffix(nextPart, "\"")
         THEN [value |-> value \o <<" ">>
                            \o SubSeq(nextPart, 1, Len(nextPart) - 1),
               i |-> i]
         ELSE LogfmtQuoted(parts, i + 1, value \o <<" ">> \o nextPart)

\* the outer loop of parseLogfmt from part i on
RECURSIVE LogfmtPairs(_, _, _)
LogfmtPairs(parts, i, res) ==
    IF i > Len(parts) THEN res
    ELSE LET part == parts[i]
             eqIndex == Index(part, "=")
             key == SubSeq(part, 1, eqIndex - 1)
             value == From(part, eqIndex + 1)
             simple == HasSuffix(value, "\"") /\ Len(value) > 1
             multi == LogfmtQuoted(parts, i + 1, Tail(value))
             v == IF ~HasPrefix(value, "\"") THEN value
                  ELSE IF simple THEN SubSeq(value, 2, Len(value) - 1)
                  ELSE multi.value
             j == IF HasPrefix(value, "\"") /\ ~simple THEN multi.i ELSE i
         IN IF eqIndex = 0 THEN LogfmtPairs(parts, i + 1, res)
            ELSE LogfmtPairs(parts, j + 1,
                             MapPut(res, Str(key), LogfmtValue(v)))

parseLogfmt(l) ==
    LET parts == Fields(l)
        res == LogfmtPairs(parts, 1, EmptyMap)
    IN IF Len(parts) = 0 THEN NilRow
       ELSE IF Cardinality(DOMAIN res) > 0 THEN SomeRow(res)
       ELSE NilRow

\* the fields of the trailing JSON object as parseMonolog stores them
MonologField(v) == CoerceNumber(v)

parseMonolog(l) ==
    LET endTime == Index(l, "]")
        timestamp == SubSeq(l, 2, endTime - 1)
        rest == TrimSpace(From(l, endTime + 1))
        colonIndex == Index(rest, ":")
        channelLevel == TrimSpace(SubSeq(rest, 1, colonIndex - 1))
        parts == Split(channelLevel, ".")
        messageAndJSON == TrimSpace(From(rest, colonIndex + 1))
        head == [x \in {"timestamp", "channel", "level"} |->
                    CASE x = "timestamp" -> StrV(timestamp)
                      [] x = "channel" -> StrV(parts[1])
                      [] x = "level" -> StrV(parts[2])]
        braceIndex == LastIndex(messageAndJSON, "{")
        jsonPart == From(messageAndJSON, braceIndex)
        messagePart == TrimSpace(SubSeq(messageAndJSON, 1, braceIndex - 1))
        json == Unmarshal(jsonPart)
        merged == Overwrite(head,
                    [k \in DOMAIN json.data |-> MonologField(json.data[k])])
    IN IF ~HasPrefix(l, "[") THEN NilRow
       ELSE IF endTime = 0 THEN NilRow
       ELSE IF rest = <<>> THEN NilRow
       ELSE IF colonIndex = 0 THEN NilRow
       ELSE IF channelLevel = <<>> THEN NilRow
       ELSE IF Len(parts) # 2 \/ parts[1] = <<>> \/ parts[2] = <<>>
       THEN NilRow
       ELSE IF messageAndJSON = <<>> THEN NilRow
       ELSE IF colonIndex + 1 > Len(rest) \/ rest[colonIndex + 1] # " "
       THEN NilRow
       ELSE IF braceIndex # 0 /\ HasSuffix(messageAndJSON, "}")
               /\ ~HasSuffix(messagePart, ":") /\ ~json.err
       THEN SomeRow(MapPut(merged, "message", StrV(messagePart)))
       ELSE SomeRow(MapPut(head, "message", StrV(messageAndJSON)))

ParseLineToValuesMonologFirst(l) ==
    IF l = <<>> THEN EmptyMap
    ELSE IF parseJSON(l).ok THEN parseJSON(l).row
    ELSE IF parseSyslog(l).ok THEN parseSyslog(l).row
    ELSE IF parseCLF(l).ok THEN parseCLF(l).row
    ELSE IF parseMonolog(l).ok THEN parseMonolog(l).row
    ELSE IF parseLogfmt(l).ok THEN parseLogfmt(l).row
    ELSE [x \in {"message"} |-> StrV(stripAnsiCodes(l))]
ParseLineToValues(l) ==
    IF l = <<>> THEN EmptyMap
    ELSE IF parseJSON(l).ok THEN parseJSON(l).row
    ELSE IF parseSyslog(l).ok THEN parseSyslog(l).row
    ELSE IF parseCLF(l).ok THEN parseCLF(l).row
    ELSE IF parseLogfmt(l).ok THEN parseLogfmt(l).row
    ELSE IF parseMonolog(l).ok THEN parseMonolog(l).row
    ELSE [x \in {"message"} |-> StrV(stripAnsiCodes(l))]

----------------------------------------------------------------------------
(* The lines callers parse *)

\* lines that start as a JSON value
JsonLines ==
    \* {}
    {<<"{", "}">>,
    \*  { } 
     <<" ", "{", " ", "}", " ">>,
    \* null
     <<"n", "u", "l", "l">>,
    \* null 
     <<"n", "u", "l", "l", " ">>,
    \* nullk
     <<"n", "u", "l", "l", "k">>,
    \* 12
     <<"1", "2">>,
    \* "a"
     <<"\"", "a", "\"">>,
    \* [1]
     <<"[", "1", "]">>,
    \* {"a":1}
     <<"{", "\"", "a", "\"", ":", "1", "}">>,
    \* {"a":-12,"b":1.5}
     <<"{", "\"", "a", "\"", ":", "-", "1", "2", ",", "\"", "b", "\"", ":",
       "1", ".", "5", "}">>,
    \* {"a":9223372036854775807}
     <<"{", "\"", "a", "\"", ":", "9", "2", "2", "3", "3", "7", "2", "0",
       "3", "6", "8", "5", "4", "7", "7", "5", "8", "0", "7", "}">>,
    \* {"a":9223372036854775808}
     <<"{", "\"", "a", "\"", ":", "9", "2", "2", "3", "3", "7", "2", "0",
       "3", "6", "8", "5", "4", "7", "7", "5", "8", "0", "8", "}">>,
    \* {"a":null,"b":"k"}
     <<"{", "\"", "a", "\"", ":", "n", "u", "l", "l", ",", "\"", "b", "\"",
       ":", "\"", "k", "\"", "}">>,
    \* {"a":{"b":1}}
     <<"{", "\"", "a", "\"", ":", "{", "\"", "b", "\"", ":", "1", "}", "}">>,
    \* {"a":[1,2]}
     <<"{", "\"", "a", "\"", ":", "[", "1", ",", "2", "]", "}">>,
    \* {"a":1} k=2
     <<"{", "\"", "a", "\"", ":", "1", "}", " ", "k", "=", "2">>,
    \* {"a":1
     <<"{", "\"", "a", "\"", ":", "1">>,
    \* {"a":01}
     <<"{", "\"", "a", "\"", ":", "0", "1", "}">>,
    \* {"a":1,}
     <<"{", "\"", "a", "\"", ":", "1", ",", "}">>,
    \* {"a":"ESC[1m"}
     <<"{", "\"", "a", "\"", ":", "\"", "ESC", "[", "1", "m", "\"", "}">>,
    \* {"a":1,"a":2}
     <<"{", "\"", "a", "\"", ":", "1", ",", "\"", "a", "\"", ":", "2", "}">>}

\* lines that start as a syslog priority
SyslogLines ==
    \* <34>1 a b k l m - b
    {<<"<", "3", "4", ">", "1", " ", "a", " ", "b", " ", "k", " ", "l",
       " ", "m", " ", "-", " ", "b">>,
    \* <34>1 a b k l m
     <<"<", "3", "4", ">", "1", " ", "a", " ", "b", " ", "k", " ", "l",
       " ", "m">>,
    \* <34>1 a b k l m [u@1 k="a" b=2 n] ab 
     <<"<", "3", "4", ">", "1", " ", "a", " ", "b", " ", "k", " ", "l",
       " ", "m", " ", "[", "u", "@", "1", " ", "k", "=", "\"", "a", "\"",
       " ", "b", "=", "2", " ", "n", "]", " ", "a", "b", " ">>,
    \* <34>1 a b k l m ]a[ b
     <<"<", "3", "4", ">", "1", " ", "a", " ", "b", " ", "k", " ", "l",
       " ", "m", " ", "]", "a", "[", " ", "b">>,
    \* <-5>1 a b k l m n=1
     <<"<", "-", "5", ">", "1", " ", "a", " ", "b", " ", "k", " ", "l",
       " ", "m", " ", "n", "=", "1">>,
    \* <34>a 1 2 b k: m
     <<"<", "3", "4", ">", "a", " ", "1", " ", "2", " ", "b", " ", "k",
       ":", " ", "m">>,
    \* <34>a 1 2 b k m
     <<"<", "3", "4", ">", "a", " ", "1", " ", "2", " ", "b", " ", "k",
       " ", "m">>,
    \* <34>a 1 2
     <<"<", "3", "4", ">", "a", " ", "1", " ", "2">>,
    \* <a>1 a b k l m n
     <<"<", "a", ">", "1", " ", "a", " ", "b", " ", "k", " ", "l", " ",
       "m", " ", "n">>,
    \* <34 1 a b k l m n
     <<"<", "3", "4", " ", "1", " ", "a", " ", "b", " ", "k", " ", "l",
       " ", "m", " ", "n">>,
    \* <34>1 a b k l "m - 2 1
     <<"<", "3", "4", ">", "1", " ", "a", " ", "b", " ", "k", " ", "l",
       " ", "\"", "m", " ", "-", " ", "2", " ", "1">>,
    \* <>a 1 2 b k: m
     <<"<", ">", "a", " ", "1", " ", "2", " ", "b", " ", "k", ":", " ",
       "m">>}

\* logfmt and Monolog lines, and lines of no format, some with ANSI codes
OtherLines ==
    \* k=1
    {<<"k", "=", "1">>,
    \* k=1.5 b="a b" n=nan
     <<"k", "=", "1", ".", "5", " ", "b", "=", "\"", "a", " ", "b", "\"",
       " ", "n", "=", "n", "a", "n">>,
    \* k="a b
     <<"k", "=", "\"", "a", " ", "b">>,
    \* a=b [1] a.b: m
     <<"a", "=", "b", " ", "[", "1", "]", " ", "a", ".", "b", ":", " ",
       "m">>,
    \* =1
     <<"=", "1">>,
    \* a - - [1] "G /" 200 1 k=1
     <<"a", " ", "-", " ", "-", " ", "[", "1", "]", " ", "\"", "G", " ",
       "/", "\"", " ", "2", "0", "0", " ", "1", " ", "k", "=", "1">>,
    \* [1] a.b: m
     <<"[", "1", "]", " ", "a", ".", "b", ":", " ", "m">>,
    \* [1] a.b: m {"k":1}
     <<"[", "1", "]", " ", "a", ".", "b", ":", " ", "m", " ", "{", "\"",
       "k", "\"", ":", "1", "}">>,
    \* [1] a.b: m k=1
     <<"[", "1", "]", " ", "a", ".", "b", ":", " ", "m", " ", "k", "=",
       "1">>,
    \* [1] a.b: m {"k":1,"n":"a"}
     <<"[", "1", "]", " ", "a", ".", "b", ":", " ", "m", " ", "{", "\"",
       "k", "\"", ":", "1", ",", "\"", "n", "\"", ":", "\"", "a", "\"", "}">>,
    \* [1] a.b: m {"k":-2.5}
     <<"[", "1", "]", " ", "a", ".", "b", ":", " ", "m", " ", "{", "\"",
       "k", "\"", ":", "-", "2", ".", "5", "}">>,
    \* [1] a.b: m: {"k":1}
     <<"[", "1", "]", " ", "a", ".", "b", ":", " ", "m", ":", " ", "{",
       "\"", "k", "\"", ":", "1", "}">>,
    \* [1] a.b: m {k}
     <<"[", "1", "]", " ", "a", ".", "b", ":", " ", "m", " ", "{", "k",
       "}">>,
    \* [1] a.b:m
     <<"[", "1", "]", " ", "a", ".", "b", ":", "m">>,
    \* [1] a: m
     <<"[", "1", "]", " ", "a", ":", " ", "m">>,
    \* [1] a.b.k: m
     <<"[", "1", "]", " ", "a", ".", "b", ".", "k", ":", " ", "m">>,
    \* [1] a.b: 
     <<"[", "1", "]", " ", "a", ".", "b", ":", " ">>,
    \* [1]
     <<"[", "1", "]">>,
    \* [1 a.b: m
     <<"[", "1", " ", "a", ".", "b", ":", " ", "m">>,
    \* [1] a.b m
     <<"[", "1", "]", " ", "a", ".", "b", " ", "m">>,
    \* ab ESC[32m12ESC[0m
     <<"a", "b", " ", "ESC", "[", "3", "2", "m", "1", "2", "ESC", "[", "0",
       "m">>,
    \* ESC[1;31mabESC[m k
     <<"ESC", "[", "1", ";", "3", "1", "m", "a", "b", "ESC", "[", "m", " ",
       "k">>,
    \* a ESC[3b ESC[ m
     <<"a", " ", "ESC", "[", "3", "b", " ", "ESC", "[", " ", "m">>,
    \* k=ESC[1m1
     <<"k", "=", "ESC", "[", "1", "m", "1">>,
    \*  
     <<" ">>,
    \* a b
     <<"a", " ", "b">>,
    \* <34>ESC[1m
     <<"<", "3", "4", ">", "ESC", "[", "1", "m">>,
    \* [1] a.b: ESC[1mkESC[0m
     <<"[", "1", "]", " ", "a", ".", "b", ":", " ", "ESC", "[", "1", "m",
       "k", "ESC", "[", "0", "m">>}

\* access-log lines: bracketed and unbracketed, with and without a size,
\* with a request that is not closed, and lines that are not access logs
ClfForms ==
    \* 1.2 - - [1/2 -0] "G / 1" 200 12
    {<<"1", ".", "2", " ", "-", " ", "-", " ", "[", "1", "/", "2", " ",
       "-", "0", "]", " ", "\"", "G", " ", "/", " ", "1", "\"", " ", "2",
       "0", "0", " ", "1", "2">>,
    \* 1.2 - u [1/2] "G /" 200 -
     <<"1", ".", "2", " ", "-", " ", "u", " ", "[", "1", "/", "2", "]",
       " ", "\"", "G", " ", "/", "\"", " ", "2", "0", "0", " ", "-">>,
    \* 1.2 - u [1/2] "G /" 200
     <<"1", ".", "2", " ", "-", " ", "u", " ", "[", "1", "/", "2", "]",
       " ", "\"", "G", " ", "/", "\"", " ", "2", "0", "0">>,
    \* - a  1/2 -0 "G /" 200
     <<"-", " ", "a", " ", " ", "1", "/", "2", " ", "-", "0", " ", "\"",
       "G", " ", "/", "\"", " ", "2", "0", "0">>,
    \* 1.2 - u [1/2] "G" 200 12 -
     <<"1", ".", "2", " ", "-", " ", "u", " ", "[", "1", "/", "2", "]",
       " ", "\"", "G", "\"", " ", "2", "0", "0", " ", "1", "2", " ", "-">>,
    \* 1.2 - u [1/2] "G / 1 200 12 "a"
     <<"1", ".", "2", " ", "-", " ", "u", " ", "[", "1", "/", "2", "]",
       " ", "\"", "G", " ", "/", " ", "1", " ", "2", "0", "0", " ", "1", "2",
       " ", "\"", "a", "\"">>,
    \* 1.2 - u [1/2] "G / 1" 2a 1b "a
     <<"1", ".", "2", " ", "-", " ", "u", " ", "[", "1", "/", "2", "]",
       " ", "\"", "G", " ", "/", " ", "1", "\"", " ", "2", "a", " ", "1",
       "b", " ", "\"", "a">>,
    \* 1.2 - u "G /" 200 12 k
     <<"1", ".", "2", " ", "-", " ", "u", " ", "\"", "G", " ", "/", "\"",
       " ", "2", "0", "0", " ", "1", "2", " ", "k">>,
    \* 1.2 "G /" 200 12 k l
     <<"1", ".", "2", " ", "\"", "G", " ", "/", "\"", " ", "2", "0", "0",
       " ", "1", "2", " ", "k", " ", "l">>,
    \* 1.2 - u [1/2] G / 200 12
     <<"1", ".", "2", " ", "-", " ", "u", " ", "[", "1", "/", "2", "]",
       " ", "G", " ", "/", " ", "2", "0", "0", " ", "1", "2">>}

\* the values of a trailing quoted field: the dash, the empty text, one
\* word, two words
TrailingValues == {<<"-">>, <<>>, <<"a">>, <<"a", " ", "b">>}

Quoted(v) == <<" ", "\"">> \o v \o <<"\"">>

\* 1.2 - u [1/2 -0] "G / 1" 200 12
ClfBase ==
    <<"1", ".", "2", " ", "-", " ", "u", " ", "[", "1", "/", "2", " ", "-",
      "0", "]", " ", "\"", "G", " ", "/", " ", "1", "\"", " ", "2", "0", "0",
      " ", "1", "2">>

\* the line with the quoted fields given after the size
RECURSIVE ClfLine(_)
ClfLine(fields) ==
    IF fields = <<>> THEN ClfBase
    ELSE ClfLine(SubSeq(fields, 1, Len(fields) - 1))
            \o Quoted(fields[Len(fields)])

ClfLines ==
    ClfForms
    \cup {ClfLine(<<>>)}
    \cup {ClfLine(<<r>>) : r \in TrailingValues}
    \cup {ClfLine(<<r, u>>) : r \in TrailingValues, u \in TrailingValues}
    \cup {ClfLine(<<r, u, f>>) :
            r \in TrailingValues, u \in TrailingValues,
            f \in TrailingValues}

\* [1] a.b: m
MonologHead == <<"[", "1", "]", " ", "a", ".", "b", ":", " ", "m", " ">>

\* the lines of JsonLines that are one object without an object inside
FlatJsonLines ==
    {j \in JsonLines :
        HasPrefix(j, "{") /\ LastIndex(j, "{") = 1 /\ HasSuffix(j, "}")}

\* Monolog lines that end with a JSON object
MonologLines == {MonologHead \o j : j \in FlatJsonLines}

\* the lines passed to ParseLineToValues
ParseLines ==
    {<<>>} \cup JsonLines \cup SyslogLines \cup ClfLines \cup OtherLines
        \cup MonologLines

----------------------------------------------------------------------------
(* The functions called on their own: PromoteTo, typeFromInt64, NewRow,
   flattenJsonMaps *)

\* the 24 constants of ColumnType
AllTypes ==
    ValueTypes \cup {JsonMap, UnknownInt, UnknownFloat, UnknownString, Unknown}

\* typeTransformations of the test file: <<old, given, promotion>>
typeTransformations ==
    {<<Null, Null, Null>>, <<Null, Boolean, Boolean>>,
     <<Null, Utinyint, Utinyint>>, <<Null, Usmallint, Usmallint>>,
     <<Null, Uinteger, Uinteger>>, <<Null, Ubigint, Ubigint>>,
     <<Null, Tinyint, Tinyint>>, <<Null, Smallint, Smallint>>,
     <<Null, Integer, Integer>>, <<Null, Bigint, Bigint>>,
     <<Null, Hugeint, Hugeint>>, <<Null, Float, Float>>,
     <<Null, Double, Double>>, <<Null, Date, Date>>, <<Null, Time, Time>>,
     <<Null, Timestamp, Timestamp>>, <<Null, Uuid, Uuid>>,
     <<Null, Varchar, Varchar>>, <<Null, Json, Json>>,
     <<Boolean, Null, Boolean>>, <<Boolean, Boolean, Boolean>>,
     <<Boolean, Utinyint, Utinyint>>, <<Boolean, Usmallint, Usmallint>>,
     <<Boolean, Uinteger, Uinteger>>, <<Boolean, Ubigint, Ubigint>>,
     <<Boolean, Tinyint, Tinyint>>, <<Boolean, Smallint, Smallint>>,
     <<Boolean, Integer, Integer>>, <<Boolean, Bigint, Bigint>>,
     <<Boolean, Hugeint, Hugeint>>, <<Boolean, Float, Float>>,
     <<Boolean, Double, Double>>, <<Boolean, Date, Varchar>>,
     <<Boolean, Time, Varchar>>, <<Boolean, Timestamp, Varchar>>,
     <<Boolean, Uuid, Varchar>>, <<Boolean, Varchar, Varchar>>,
     <<Boolean, Json, Varchar>>, <<Utinyint, Null, Utinyint>>,
     <<Utinyint, Boolean, Utinyint>>, <<Utinyint, Utinyint, Utinyint>>,
     <<Utinyint, Usmallint, Usmallint>>, <<Utinyint, Uinteger, Uinteger>>,
     <<Utinyint, Ubigint, Ubigint>>, <<Utinyint, Tinyint, Smallint>>,
     <<Utinyint, Smallint, Integer>>, <<Utinyint, Integer, Bigint>>,
     <<Utinyint, Bigint, Hugeint>>, <<Utinyint, Hugeint, Hugeint>>,
     <<Utinyint, Float, Float>>, <<Utinyint, Double, Double>>,
     <<Utinyint, Date, Varchar>>, <<Utinyint, Time, Varchar>>,
     <<Utinyint, Timestamp, Varchar>>, <<Utinyint, Uuid, Varchar>>,
     <<Utinyint, Varchar, Varchar>>, <<Utinyint, Json, Varchar>>,
     <<Usmallint, Null, Usmallint>>, <<Usmallint, Boolean, Usmallint>>,
     <<Usmallint, Utinyint, Usmallint>>, <<Usmallint, Usmallint, Usmallint>>,
     <<Usmallint, Uinteger, Uinteger>>, <<Usmallint, Ubigint, Ubigint>>,
     <<Usmallint, Tinyint, Integer>>, <<Usmallint, Smallint, Integer>>,
     <<Usmallint, Integer, Bigint>>, <<Usmallint, Bigint, Hugeint>>,
     <<Usmallint, Hugeint, Hugeint>>, <<Usmallint, Float, Float>>,
     <<Usmallint, Double, Double>>, <<Usmallint, Date, Varchar>>,
     <<Usmallint, Time, Varchar>>, <<Usmallint, Timestamp, Varchar>>,
     <<Usmallint, Uuid, Varchar>>, <<Usmallint, Varchar, Varchar>>,
     <<Usmallint, Json, Varchar>>, <<Uinteger, Null, Uinteger>>,
     <<Uinteger, Boolean, Uinteger>>, <<Uinteger, Utinyint, Uinteger>>,
     <<Uinteger, Usmallint, Uinteger>>, <<Uinteger, Uinteger, Uinteger>>,
     <<Uinteger, Ubigint, Ubigint>>, <<Uinteger, Tinyint, Bigint>>,
     <<Uinteger, Smallint, Bigint>>, <<Uinteger, Integer, Bigint>>,
     <<Uinteger, Bigint, Hugeint>>, <<Uinteger, Hugeint, Hugeint>>,
     <<Uinteger, Float, Float>>, <<Uinteger, Double, Double>>,
     <<Uinteger, Date, Varchar>>, <<Uinteger, Time, Varchar>>,
     <<Uinteger, Timestamp, Varchar>>, <<Uinteger, Uuid, Varchar>>,
     <<Uinteger, Varchar, Varchar>>, <<Uinteger, Json, Varchar>>,
     <<Ubigint, Null, Ubigint>>, <<Ubigint, Boolean, Ubigint>>,
     <<Ubigint, Utinyint, Ubigint>>, <<Ubigint, Usmallint, Ubigint>>,
     <<Ubigint, Uinteger, Ubigint>>, <<Ubigint, Ubigint, Ubigint>>,
     <<Ubigint, Tinyint, Hugeint>>, <<Ubigint, Smallint, Hugeint>>,
     <<Ubigint, Integer, Hugeint>>, <<Ubigint, Bigint, Hugeint>>,
     <<Ubigint, Hugeint, Hugeint>>, <<Ubigint, Float, Float>>,
     <<Ubigint, Double, Double>>, <<Ubigint, Date, Varchar>>,
     <<Ubigint, Time, Varchar>>, <<Ubigint, Timestamp, Varchar>>,
     <<Ubigint, Uuid, Varchar>>, <<Ubigint, Varchar, Varchar>>,
     <<Ubigint, Json, Varchar>>, <<Tinyint, Null, Tinyint>>,
     <<Tinyint, Boolean, Tinyint>>, <<Tinyint, Utinyint, Smallint>>,
     <<Tinyint, Usmallint, Integer>>, <<Tinyint, Uinteger, Bigint>>,
     <<Tinyint, Ubigint, Hugeint>>, <<Tinyint, Tinyint, Tinyint>>,
     <<Tinyint, Smallint, Smallint>>, <<Tinyint, Integer, Integer>>,
     <<Tinyint, Bigint, Bigint>>, <<Tinyint, Hugeint, Hugeint>>,
     <<Tinyint, Float, Float>>, <<Tinyint, Double, Double>>,
     <<Tinyint, Date, Varchar>>, <<Tinyint, Time, Varchar>>,
     <<Tinyint, Timestamp, Varchar>>, <<Tinyint, Uuid, Varchar>>,
     <<Tinyint, Varchar, Varchar>>, <<Tinyint, Json, Varchar>>,
     <<Smallint, Null, Smallint>>, <<Smallint, Boolean, Smallint>>,
     <<Smallint, Utinyint, Smallint>>, <<Smallint, Usmallint, Integer>>,
     <<Smallint, Uinteger, Bigint>>, <<Smallint, Ubigint, Hugeint>>,
     <<Smallint, Tinyint, Smallint>>, <<Smallint, Smallint, Smallint>>,
     <<Smallint, Integer, Integer>>, <<Smallint, Bigint, Bigint>>,
     <<Smallint, Hugeint, Hugeint>>, <<Smallint, Float, Float>>,
     <<Smallint, Double, Double>>, <<Smallint, Date, Varchar>>,
     <<Smallint, Time, Varchar>>, <<Smallint, Timestamp, Varchar>>,
     <<Smallint, Uuid, Varchar>>, <<Smallint, Varchar, Varchar>>,
     <<Smallint, Json, Varchar>>, <<Integer, Null, Integer>>,
     <<Integer, Boolean, Integer>>, <<Integer, Utinyint, Integer>>,
     <<Integer, Usmallint, Integer>>, <<Integer, Uinteger, Bigint>>,
     <<Integer, Ubigint, Hugeint>>, <<Integer, Tinyint, Integer>>,
     <<Integer, Smallint, Integer>>, <<Integer, Integer, Integer>>,
     <<Integer, Bigint, Bigint>>, <<Integer, Hugeint, Hugeint>>,
     <<Integer, Float, Float>>, <<Integer, Double, Double>>,
     <<Integer, Date, Varchar>>, <<Integer, Time, Varchar>>,
     <<Integer, Timestamp, Varchar>>, <<Integer, Uuid, Varchar>>,
     <<Integer, Varchar, Varchar>>, <<Integer, Json, Varchar>>,
     <<Bigint, Null, Bigint>>, <<Bigint, Boolean, Bigint>>,
     <<Bigint, Utinyint, Bigint>>, <<Bigint, Usmallint, Bigint>>,
     <<Bigint, Uinteger, Hugeint>>, <<Bigint, Ubigint, Hugeint>>,
     <<Bigint, Tinyint, Bigint>>, <<Bigint, Smallint, Bigint>>,
     <<Bigint, Integer, Bigint>>, <<Bigint, Bigint, Bigint>>,
     <<Bigint, Hugeint, Hugeint>>, <<Bigint, Float, Float>>,
     <<Bigint, Double, Double>>, <<Bigint, Date, Varchar>>,
     <<Bigint, Time, Varchar>>, <<Bigint, Timestamp, Varchar>>,
     <<Bigint, Uuid, Varchar>>, <<Bigint, Varchar, Varchar>>,
     <<Bigint, Json, Varchar>>, <<Hugeint, Null, Hugeint>>,
     <<Hugeint, Boolean, Hugeint>>, <<Hugeint, Utinyint, Hugeint>>,
     <<Hugeint, Usmallint, Hugeint>>, <<Hugeint, Uinteger, Hugeint>>,
     <<Hugeint, Ubigint, Hugeint>>, <<Hugeint, Tinyint, Hugeint>>,
     <<Hugeint, Smallint, Hugeint>>, <<Hugeint, Integer, Hugeint>>,
     <<Hugeint, Bigint, Hugeint>>, <<Hugeint, Hugeint, Hugeint>>,
     <<Hugeint, Float, Varchar>>, <<Hugeint, Double, Varchar>>,
     <<Hugeint, Date, Varchar>>, <<Hugeint, Time, Varchar>>,
     <<Hugeint, Timestamp, Varchar>>, <<Hugeint, Uuid, Varchar>>,
     <<Hugeint, Varchar, Varchar>>, <<Hugeint, Json, Varchar>>,
     <<Float, Null, Float>>, <<Float, Boolean, Float>>,
     <<Float, Utinyint, Float>>, <<Float, Usmallint, Float>>,
     <<Float, Uinteger, Float>>, <<Float, Ubigint, Float>>,
     <<Float, Tinyint, Float>>, <<Float, Smallint, Float>>,
     <<Float, Integer, Float>>, <<Float, Bigint, Float>>,
     <<Float, Hugeint, Varchar>>, <<Float, Float, Float>>,
     <<Float, Double, Double>>, <<Float, Date, Varchar>>,
     <<Float, Time, Varchar>>, <<Float, Timestamp, Varchar>>,
     <<Float, Uuid, Varchar>>, <<Float, Varchar, Varchar>>,
     <<Float, Json, Varchar>>, <<Double, Null, Double>>,
     <<Double, Boolean, Double>>, <<Double, Utinyint, Double>>,
     <<Double, Usmallint, Double>>, <<Double, Uinteger, Double>>,
     <<Double, Ubigint, Double>>, <<Double, Tinyint, Double>>,
     <<Double, Smallint, Double>>, <<Double, Integer, Double>>,
     <<Double, Bigint, Double>>, <<Double, Hugeint, Varchar>>,
     <<Double, Float, Double>>, <<Double, Double, Double>>,
     <<Double, Date, Varchar>>, <<Double, Time, Varchar>>,
     <<Double, Timestamp, Varchar>>, <<Double, Uuid, Varchar>>,
     <<Double, Varchar, Varchar>>, <<Double, Json, Varchar>>,
     <<Date, Null, Date>>, <<Date, Boolean, Varchar>>,
     <<Date, Utinyint, Varchar>>, <<Date, Usmallint, Varchar>>,
     <<Date, Uinteger, Varchar>>, <<Date, Ubigint, Varchar>>,
     <<Date, Tinyint, Varchar>>, <<Date, Smallint, Varchar>>,
     <<Date, Integer, Varchar>>, <<Date, Bigint, Varchar>>,
     <<Date, Hugeint, Varchar>>, <<Date, Float, Varchar>>,
     <<Date, Double, Varchar>>, <<Date, Date, Date>>,
     <<Date, Time, Timestamp>>, <<Date, Timestamp, Timestamp>>,
     <<Date, Uuid, Varchar>>, <<Date, Varchar, Varchar>>,
     <<Date, Json, Varchar>>, <<Time, Null, Time>>,
     <<Time, Boolean, Varchar>>, <<Time, Utinyint, Varchar>>,
     <<Time, Usmallint, Varchar>>, <<Time, Uinteger, Varchar>>,
     <<Time, Ubigint, Varchar>>, <<Time, Tinyint, Varchar>>,
     <<Time, Smallint, Varchar>>, <<Time, Integer, Varchar>>,
     <<Time, Bigint, Varchar>>, <<Time, Hugeint, Varchar>>,
     <<Time, Float, Varchar>>, <<Time, Double, Varchar>>,
     <<Time, Date, Timestamp>>, <<Time, Time, Time>>,
     <<Time, Timestamp, Timestamp>>, <<Time, Uuid, Varchar>>,
     <<Time, Varchar, Varchar>>, <<Time, Json, Varchar>>,
     <<Timestamp, Null, Timestamp>>, <<Timestamp, Boolean, Varchar>>,
     <<Timestamp, Utinyint, Varchar>>, <<Timestamp, Usmallint, Varchar>>,
     <<Timestamp, Uinteger, Varchar>>, <<Timestamp, Ubigint, Varchar>>,
     <<Timestamp, Tinyint, Varchar>>, <<Timestamp, Smallint, Varchar>>,
     <<Timestamp, Integer, Varchar>>, <<Timestamp, Bigint, Varchar>>,
     <<Timestamp, Hugeint, Varchar>>, <<Timestamp, Float, Varchar>>,
     <<Timestamp, Double, Varchar>>, <<Timestamp, Date, Timestamp>>,
     <<Timestamp, Time, Timestamp>>, <<Timestamp, Timestamp, Timestamp>>,
     <<Timestamp, Uuid, Varchar>>, <<Timestamp, Varchar, Varchar>>,
     <<Timestamp, Json, Varchar>>, <<Uuid, Null, Uuid>>,
     <<Uuid, Boolean, Varchar>>, <<Uuid, Utinyint, Varchar>>,
     <<Uuid, Usmallint, Varchar>>, <<Uuid, Uinteger, Varchar>>,
     <<Uuid, Ubigint, Varchar>>, <<Uuid, Tinyint, Varchar>>,
     <<Uuid, Smallint, Varchar>>, <<Uuid, Integer, Varchar>>,
     <<Uuid, Bigint, Varchar>>, <<Uuid, Hugeint, Varchar>>,
     <<Uuid, Float, Varchar>>, <<Uuid, Double, Varchar>>,
     <<Uuid, Date, Varchar>>, <<Uuid, Time, Varchar>>,
     <<Uuid, Timestamp, Varchar>>, <<Uuid, Uuid, Uuid>>,
     <<Uuid, Varchar, Varchar>>, <<Uuid, Json, Varchar>>,
     <<Varchar, Null, Varchar>>, <<Varchar, Boolean, Varchar>>,
     <<Varchar, Utinyint, Varchar>>, <<Varchar, Usmallint, Varchar>>,
     <<Varchar, Uinteger, Varchar>>, <<Varchar, Ubigint, Varchar>>,
     <<Varchar, Tinyint, Varchar>>, <<Varchar, Smallint, Varchar>>,
     <<Varchar, Integer, Varchar>>, <<Varchar, Bigint, Varchar>>,
     <<Varchar, Hugeint, Varchar>>, <<Varchar, Float, Varchar>>,
     <<Varchar, Double, Varchar>>, <<Varchar, Date, Varchar>>,
     <<Varchar, Time, Varchar>>, <<Varchar, Timestamp, Varchar>>,
     <<Varchar, Uuid, Varchar>>, <<Varchar, Varchar, Varchar>>,
     <<Varchar, Json, Varchar>>, <<Json, Null, Json>>,
     <<Json, Boolean, Varchar>>, <<Json, Utinyint, Varchar>>,
     <<Json, Usmallint, Varchar>>, <<Json, Uinteger, Varchar>>,
     <<Json, Ubigint, Varchar>>, <<Json, Tinyint, Varchar>>,
     <<Json, Smallint, Varchar>>, <<Json, Integer, Varchar>>,
     <<Json, Bigint, Varchar>>, <<Json, Hugeint, Varchar>>,
     <<Json, Float, Varchar>>, <<Json, Double, Varchar>>,
     <<Json, Date, Varchar>>, <<Json, Time, Varchar>>,
     <<Json, Timestamp, Varchar>>, <<Json, Uuid, Varchar>>,
     <<Json, Varchar, Varchar>>, <<Json, Json, Json>>}

I64_max == <<32767, 65535, 65535, 65535>>
I64_min == <<32768, 0, 0, 0>>

\* the int64 values passed to typeFromInt64: both ends of every band of the
\* cascade, the values next to them, and values inside the bands
Int64Inputs ==
    {I64Small(0), I64Small(1), I64Small(120), I64Small(254), I64Small(255),
     I64Small(256), I64Small(300), I64Small(65534), I64Small(65535),
     <<0, 0, 1, 0>>, I64_70000, <<0, 0, 65535, 65534>>,
     <<0, 0, 65535, 65535>>, I64_2p32, <<0, 1, 0, 1>>, I64_max,
     I64Minus(1), I64Minus(5), I64Minus(127), I64Minus(128), I64Minus(129),
     I64Minus(200), I64Minus(32767), I64Minus(32768),
     I64Minus(32769), I64Minus(32770), I64_m40000,
     <<65535, 65535, 32768, 1>>, <<65535, 65535, 32768, 0>>,
     <<65535, 65535, 32767, 65535>>, <<65535, 65535, 32767, 65534>>,
     <<65535, 0, 0, 0>>, I64_min}

\* NewRow: data keeps its own timestamp when that value infers as Timestamp
NewRowAlwaysOverwrite(timestamp, data) == MapPut(data, "timestamp", timestamp)
NewRow(timestamp, data) ==
    IF "timestamp" \notin DOMAIN data
            \/ duckDbTypeFromInput(data["timestamp"]) # Timestamp
    THEN MapPut(data, "timestamp", timestamp)
    ELSE data

\* the reference time of the caller, on 2023-01-01
T_ref == TimeV(<<"2", "0", "2", "3", "-", "0", "1", "-", "0", "1">>)

\* the data maps passed to NewRow: without a timestamp, and with a timestamp
\* of every kind of value
NewRowData ==
    {EmptyMap}
    \cup {Row1("a", v) : v \in ColumnValues}
    \cup {Row1("timestamp", ts) : ts \in ColumnValues}
    \cup {Row2("timestamp", ts, "a", v) :
            ts \in ColumnValues, v \in {IntV(I64Small(1)), StrV(S_text)}}

\* the rows passed to flattenJsonMaps: flat, with an array, with maps nested
\* one and two levels deep, with an empty map, with an array inside a map
FlattenRows ==
    {EmptyMap}
    \cup {Row2("timestamp", T_now, "a", v) : v \in ColumnValues}
    \cup {Row1("user", MapV(Row1("id", IntV(I64Small(123))))),
          Row1("user", MapV(Row1("info", MapV(Row1("name", StrV(S_text)))))),
          Row2("timestamp", T_now, "a", MapV(EmptyMap)),
          Row2("timestamp", T_now, "a",
               MapV(Row2("b", ArrV(<<IntV(I64Small(1)), NilV, BoolV(FALSE)>>),
                         "c", NilV))),
          Row2("a", MapV(Row2("b", IntV(I64Small(1)), "c", StrV(S_text))),
               "d", MapV(Row1("e", MapV(Row1("f", BoolV(TRUE))))))}
    \* rows in which two fields are flattened to one key
    \cup {Row2("a", MapV(Row1("b", IntV(I64Small(1)))),
               "a_b", IntV(I64Small(2))),
          Row2("a", MapV(Row1("b_c", StrV(S_text))),
               "a_b", MapV(Row1("c", NilV)))}

\* a call that was made and has not run yet
FnCalls ==
    {[kind |-> "call", fn |-> "PromoteTo", old |-> old, given |-> given] :
        old \in AllTypes, given \in AllTypes}
    \cup {[kind |-> "call", fn |-> "typeFromInt64", v |-> v] :
            v \in Int64Inputs}
    \cup {[kind |-> "call", fn |-> "NewRow", timestamp |-> T_ref,
           data |-> data] : data \in NewRowData}
    \cup {[kind |-> "call", fn |-> "flattenJsonMaps", row |-> row] :
            row \in FlattenRows}
    \cup {[kind |-> "call", fn |-> "ParseLineToValues", l |-> l] :
            l \in ParseLines}

FnInit ==
    /\ last \in FnCalls
    /\ schema = EmptyMap
    /\ nrows = 0
    /\ left = EmptyMap
    /\ table = TableUntracked
    /\ wr = [p \in Writers |-> WriterIdle]
    /\ connections = EmptyMap
    /\ mutexW = NoProc
    /\ readers = {}
    /\ pc = [p \in Procs |-> "idle"]
    /\ arg = [p \in Procs |-> NoPath]
    /\ result = [p \in Procs |-> NoResult]
    /\ nextId = 1
    /\ closedW = {}
    /\ ncalls = 0
    /\ returned = {}
    /\ opens = [q \in Paths |-> 0]
    /\ deletes = [q \in Paths |-> 0]
    /\ attempts = [q \in Paths |-> 0]

FnCalled(fn) == last.kind = "call" /\ last.fn = fn
FnReturned(fn) == last.kind = "ret" /\ last.fn = fn

CallPromoteTo ==
    /\ FnCalled("PromoteTo")
    /\ last' = [kind |-> "ret", fn |-> "PromoteTo", old |-> last.old,
                given |-> last.given,
                res |-> PromoteTo(last.old, last.given)]
    /\ UNCHANGED <<regVars, schema, nrows, left, table, wr>>

CallTypeFromInt64 ==
    /\ FnCalled("typeFromInt64")
    /\ last' = [kind |-> "ret", fn |-> "typeFromInt64", v |-> last.v,
                t |-> typeFromInt64(last.v)]
    /\ UNCHANGED <<regVars, schema, nrows, left, table, wr>>

CallNewRow ==
    /\ FnCalled("NewRow")
    /\ last' = [kind |-> "ret", fn |-> "NewRow",
                timestamp |-> last.timestamp, data |-> last.data,
                row |-> NewRow(last.timestamp, last.data)]
    /\ UNCHANGED <<regVars, schema, nrows, left, table, wr>>

\* flattenJsonMaps(row), flattenJsonMaps of its result, and a second call
\* of flattenJsonMaps(row)
CallFlattenJsonMaps ==
    /\ FnCalled("flattenJsonMaps")
    /\ \E out \in FlattenSet(last.row), other \in FlattenSet(last.row) :
        last' = [kind |-> "ret", fn |-> "flattenJsonMaps", row |-> last.row,
                 out |-> out, again |-> FlattenSet(out), other |-> other]
    /\ UNCHANGED <<regVars, schema, nrows, left, table, wr>>

CallParseLineToValues ==
    /\ FnCalled("ParseLineToValues")
    /\ last' = [kind |-> "ret", fn |-> "ParseLineToValues", l |-> last.l,
                row |-> ParseLineToValues(last.l)]
    /\ UNCHANGED <<regVars, schema, nrows, left, table, wr>>

FnNext ==
    \/ CallPromoteTo
    \/ CallTypeFromInt64
    \/ CallNewRow
    \/ CallFlattenJsonMaps
    \/ CallParseLineToValues

SpecFn == FnInit /\ [][FnNext]_vars

----------------------------------------------------------------------------
(* Claims about the functions *)

\* C16: NewRow(reference, data) returns a row whose timestamp infers as
\* Timestamp: data's own timestamp when that value infers as Timestamp, the
\* reference otherwise (absent, or of any other type); the other fields of
\* data are returned as they were and no field is added.
C16_NewRowTimestamp ==
    FnReturned("NewRow") =>
        LET data == last.data
            row == last.row
            own == /\ "timestamp" \in DOMAIN data
                   /\ duckDbTypeFromInput(data["timestamp"]) = Timestamp
        IN /\ DOMAIN row = (DOMAIN data) \cup {"timestamp"}
           /\ duckDbTypeFromInput(row["timestamp"]) = Timestamp
           /\ row["timestamp"] =
                IF own THEN data["timestamp"] ELSE last.timestamp
           /\ \A k \in (DOMAIN data) \ {"timestamp"} : row[k] = data[k]

\* the caller's own time was kept, not the reference
C16_Witness ==
    /\ FnReturned("NewRow")
    /\ last.data = Row2("timestamp", T_now, "a", StrV(S_text))
    /\ last.row["timestamp"] = T_now
    /\ last.timestamp # T_now

\* the keys of the leaves of a row, nested keys joined by "_"
RECURSIVE LeafKeys(_)
LeafKeys(row) ==
    UNION {IF row[k].k = "map"
           THEN {k \o "_" \o x : x \in LeafKeys(row[k].m)}
           ELSE {k} : k \in DOMAIN row}

IsNested(v) == v.k \in {"map", "arr"}

C18_PromoteToClosed ==
    (FnReturned("PromoteTo") /\ last.old \in ValueTypes
            /\ last.given \in ValueTypes) =>
        /\ ~last.res.err
        /\ last.res.t \in ValueTypes
        /\ <<last.old, last.given, last.res.t>> \in typeTransformations

C18_Witness ==
    /\ FnReturned("PromoteTo")
    /\ last.old = Usmallint
    /\ last.given = Tinyint
    /\ ~last.res.err
    /\ last.res.t = Integer

\* the smallest integer type whose range contains the ranges of a and b
SmallestContaining(a, b) ==
    CHOOSE t \in IntegerTypes :
        /\ RangeWithin(a, t)
        /\ RangeWithin(b, t)
        /\ \A t2 \in IntegerTypes :
            (RangeWithin(a, t2) /\ RangeWithin(b, t2)) => RangeWithin(t, t2)

\* C19 (as stated): for one unsigned and one signed integer type, in either
\* order, PromoteTo returns the smallest integer type whose range contains
\* both ranges.
C19_SmallestContainingType ==
    (FnReturned("PromoteTo")
        /\ \/ last.old \in UnsignedTypes /\ last.given \in SignedTypes
           \/ last.old \in SignedTypes /\ last.given \in UnsignedTypes) =>
        /\ ~last.res.err
        /\ last.res.t = SmallestContaining(last.old, last.given)

\* the band of the cascade a value falls in
I64Band(v) ==
    CASE I64Between(I64Small(0), v, I64Small(255)) -> Utinyint
      [] I64Between(I64Small(256), v, I64Small(65535)) -> Usmallint
      [] I64Between(<<0, 0, 1, 0>>, v, <<0, 0, 65535, 65535>>) -> Uinteger
      [] I64Leq(<<0, 1, 0, 0>>, v) -> Ubigint
      [] I64Between(I64Minus(128), v, I64Minus(1)) -> Tinyint
      [] I64Between(I64Minus(32768), v, I64Minus(129)) -> Smallint
      [] I64Between(<<65535, 65535, 32768, 0>>, v,
                    I64Minus(32769)) -> Integer
      [] I64Leq(v, <<65535, 65535, 32767, 65535>>) -> Bigint
      [] OTHER -> UnknownInt

C23_PromoteToSymmetric ==
    (/\ FnReturned("PromoteTo")
     /\ last.old \in ValueTypes
     /\ last.given \in ValueTypes) =>
        last.res = PromoteTo(last.given, last.old)

\* C30: flattenJsonMaps is deterministic: two calls with the same row return
\* the same row, whatever the order in which each visits the fields, also
\* when a field of a nested map gets the key of another field of the row.
C30_FlattenDeterministic ==
    FnReturned("flattenJsonMaps") => last.out = last.other

----------------------------------------------------------------------------
(* Claims about the line parser *)

ParseReturned == last.kind = "ret" /\ last.fn = "ParseLineToValues"

\* the detectors in the documented order, applied to a line
Detectors(l) ==
    <<parseJSON(l), parseSyslog(l), parseCLF(l), parseLogfmt(l),
      parseMonolog(l)>>
Succeeding(l) == {i \in 1..5 : Detectors(l)[i].ok}

\* C21: for a non-empty line the record returned is the one of the first
\* detector, in the order JSON, Syslog, CLF, logfmt, Monolog, that succeeds,
\* also when a later one succeeds too; when none succeeds it is the single
\* field message holding the line without its ANSI colour escapes, and the
\* escapes are removed in that case only.
C21_FirstDetectorWins ==
    (ParseReturned /\ last.l # <<>>) =>
        LET ok == Succeeding(last.l) IN
        IF ok # {}
        THEN \E i \in ok :
                /\ \A j \in ok : i <= j
                /\ last.row = Detectors(last.l)[i].row
        ELSE /\ DOMAIN last.row = {"message"}
             /\ last.row["message"].k = "str"
             /\ last.row["message"].s = stripAnsiCodes(last.l)

\* a line on which a detector succeeds that is not the only one to succeed
C21_Witness ==
    /\ ParseReturned
    /\ Cardinality(Succeeding(last.l)) >= 2
    /\ \E i \in Succeeding(last.l) : i > 1 /\ last.row = Detectors(last.l)[i].row

EmptyJsonText(l) ==
    LET t == TrimLeft(l) IN
    \/ At(t, 1) = "{" /\ At(t, SkipSpace(t, 2)) = "}"
    \/ /\ Len(t) >= 4
       /\ SubSeq(t, 1, 4) = <<"n", "u", "l", "l">>
       /\ At(t, 5) \in {"", " "}

RECURSIVE AfterFields(_, _)
AfterFields(s, n) ==
    LET t == TrimLeft(s)
        i == Index(t, " ")
    IN IF n = 0 THEN s
       ELSE IF i = 0 THEN <<>>
       ELSE AfterFields(From(t, i), n - 1)

\* the line is <priority> followed by a digit and at least 7 fields, with
\* no [ that a ] follows
IsRfc5424WithoutData(l) ==
    LET endPri == Index(l, ">")
        rest == From(l, endPri + 1)
        open == Index(rest, "[")
        close == Index(rest, "]")
    IN /\ HasPrefix(l, "<") /\ endPri # 0
       /\ Atoi(SubSeq(l, 2, endPri - 1)).ok
       /\ IsDigit(At(rest, 1))
       /\ Len(Fields(rest)) >= 7
       /\ ~(open # 0 /\ close # 0 /\ close > open)

\* C24: for an RFC5424 line without a [...] section, structured_data is the
\* empty mapping and message is the text after the six header fields,
\* trimmed, so that it does not repeat them.
C24_MessageFollowsHeader ==
    (ParseReturned /\ IsRfc5424WithoutData(last.l)) =>
        /\ last.row["structured_data"] = MapV(EmptyMap)
        /\ last.row["message"] =
                StrV(TrimSpace(AfterFields(
                        From(last.l, Index(last.l, ">") + 1), 6)))

TrailingKeys == <<"referer", "user_agent", "forwarded_for">>

\* C25: each of the trailing quoted fields of an access-log line is left
\* out of the record exactly when its value is "-", and is in the record
\* with its value otherwise, the empty text included; the same for referer,
\* user_agent and forwarded_for.
C25_TrailingFieldsAlike ==
    \A n \in 1..3 : \A fields \in [1..n -> TrailingValues] :
        (ParseReturned /\ last.l = ClfLine(fields)) =>
            \A i \in 1..n :
                /\ (TrailingKeys[i] \in DOMAIN last.row)
                        <=> (fields[i] # <<"-">>)
                /\ (fields[i] # <<"-">>) =>
                        (last.row[TrailingKeys[i]] = StrV(fields[i]))

\* C26: the fields of the JSON object that ends a Monolog line are in the
\* record with the values the JSON detector gives them: a number that fits
\* int64 is an int (and its column type an integer type), any other number
\* a float64.
C26_MonologNumbersAsJson ==
    \A j \in FlatJsonLines :
        (ParseReturned /\ last.l = MonologHead \o j) =>
            \A k \in DOMAIN parseJSON(j).row :
                /\ k \in DOMAIN last.row
                /\ last.row[k] = parseJSON(j).row[k]

----------------------------------------------------------------------------
(* The single writer with the contents of the table tracked *)

\* the values written to column a: times, dates, timestamps, integers of
\* every band, null and a text
DataValues ==
    {StrV(S_time), StrV(S_date), StrV(S_timestamp), StrV(S_text), NilV,
     IntV(I64Small(1)), IntV(I64Small(300)), IntV(I64_70000), IntV(I64_2p32),
     IntV(I64Minus(5)), IntV(I64Minus(200)), IntV(I64_m40000),
     IntV(I64_m2147483649)}

\* rows built by NewRow on two different days, a row with a timestamp text,
\* and a row whose timestamp gives no date
DataRows ==
    {NewRow(ts, Row1("a", v)) : ts \in {T_now, T_ref}, v \in DataValues}
    \cup {NewRow(T_ref, Row2("timestamp", StrV(S_timestamp),
                             "a", StrV(S_time))),
          Row2("timestamp", NilV, "a", StrV(S_time))}

\* no table, or an empty table with a column a as mockColumn creates it
DataSchemas ==
    {EmptyMap}
    \cup {Row2("timestamp", Timestamp, "a", t) :
            t \in {Null, Boolean, Date, Time, Timestamp, Varchar}
                    \cup IntegerTypes}

DataInit ==
    /\ schema \in DataSchemas
    /\ nrows = 0
    /\ last = [kind |-> "none"]
    /\ left = [col \in DOMAIN schema |-> {}]
    /\ table = TableOf(<<>>)
    /\ wr = [p \in Writers |-> WriterIdle]
    /\ connections = EmptyMap
    /\ mutexW = NoProc
    /\ readers = {}
    /\ pc = [p \in Procs |-> "idle"]
    /\ arg = [p \in Procs |-> NoPath]
    /\ result = [p \in Procs |-> NoResult]
    /\ nextId = 1
    /\ closedW = {}
    /\ ncalls = 0
    /\ returned = {}
    /\ opens = [q \in Paths |-> 0]
    /\ deletes = [q \in Paths |-> 0]
    /\ attempts = [q \in Paths |-> 0]

DataNext == \E row \in DataRows : Write(row)

SpecData == DataInit /\ [][DataNext]_vars

----------------------------------------------------------------------------
(* Claims about the contents of the table *)

\* for integer types x and y, x.PromoteTo(y) is an integer type whose range
\* contains the ranges of x and y
IntegerPromotionsContain ==
    \A x \in IntegerTypes, y \in IntegerTypes :
        LET r == PromoteTo(x, y)
        IN /\ ~r.err
           /\ r.t \in IntegerTypes
           /\ RangeWithin(x, r.t)
           /\ RangeWithin(y, r.t)

\* C11: while column a has an integer type, every integer that a Write
\* inserted into it lies in the range of that type and is still stored as
\* it was written; for integer types x and y, x.PromoteTo(y) is an integer
\* type whose range contains the ranges of x and y.
C11_IntegersKept ==
    /\ IntegerPromotionsContain
    /\ (table.tracked /\ "a" \in DOMAIN schema /\ schema["a"] \in IntegerTypes)
        => \A i \in DOMAIN table.rows :
            LET o == table.rows[i].orig
            IN ("a" \in DOMAIN o /\ o["a"].k = "int") =>
                    /\ I64InRange(o["a"].v, schema["a"])
                    /\ table.rows[i].cur["a"] = o["a"]

\* 300 and then -5 were written: the column is Integer and holds both
C11_Witness ==
    /\ table.tracked
    /\ Len(table.rows) = 2
    /\ table.rows[1].cur["a"] = IntV(I64Small(300))
    /\ table.rows[2].cur["a"] = IntV(I64Minus(5))
    /\ schema["a"] = Integer
    /\ Usmallint \in left["a"]

\* the date (first 10 characters) of the timestamp a row was inserted with
OrigDate(o) ==
    IF "timestamp" \notin DOMAIN o THEN <<>>
    ELSE IF o["timestamp"].k = "time" THEN o["timestamp"].date
    ELSE IF o["timestamp"].k = "str" /\ Len(o["timestamp"].s) >= 10
         THEN SubSeq(o["timestamp"].s, 1, 10)
    ELSE <<>>

\* C14: an ALTER from Time to Timestamp uses the date of the timestamp
\* column, every other ALTER uses TRY_CAST; after a Write promoted a column
\* from Time to Timestamp the column is Timestamp and every row that was
\* there holds the date of its own timestamp, a space and its old time
\* (NULL where there was no time or no timestamp).
C14_TimeToTimestampKeepsRowDate ==
    [][(table.tracked /\ last'.kind = "write") =>
        \A i \in DOMAIN last'.stmts :
            LET st == last'.stmts[i]
                special == st.from = Time /\ st.to = Timestamp
            IN (st.op = "alter") =>
                /\ st.using = IF special
                              THEN "date_trunc('day', timestamp) + col::TIME"
                              ELSE "TRY_CAST"
                /\ (special /\ st.ok) =>
                    /\ schema'[st.col] = Timestamp
                    /\ \A r \in DOMAIN table.rows :
                        LET o == table.rows[r].orig
                            had == /\ st.col \in DOMAIN o
                                   /\ o[st.col].k = "str"
                                   /\ OrigDate(o) # <<>>
                        IN table'.rows[r].cur[st.col] =
                            IF had
                            THEN StrV(OrigDate(o) \o <<" ">> \o o[st.col].s)
                            ELSE NilV]_vars

\* the row of 2444-04-04 with the time 12:00:00 holds 2444-04-04 12:00:00
\* after a row of 2023-01-01 with a date promoted the column
C14_Witness ==
    /\ table.tracked
    /\ Len(table.rows) = 2
    /\ table.rows[1].orig = Row2("timestamp", T_now, "a", StrV(S_time))
    /\ table.rows[2].orig = Row2("timestamp", T_ref, "a", StrV(S_date))
    /\ Time \in left["a"]
    /\ schema["a"] = Timestamp
    /\ table.rows[1].cur["a"] = StrV(T_now.date \o <<" ">> \o S_time)

\* C15: the row Write inserts is the flattened row, except that a field other
\* than timestamp whose column was read as Timestamp (after the promotions)
\* and whose value is a text of length >= 8 with ':' at positions 2 and 5 is
\* inserted as the date of the row's timestamp, a space and the text, when
\* the timestamp gives a date; a field whose column this Write adds is
\* inserted as it is.
C15_TimePrefixedWithRowDate ==
    (last.kind = "write" /\ last.stage = "done") =>
        /\ DOMAIN last.ins = DOMAIN last.flat
        /\ \A col \in DOMAIN last.flat :
            LET v == last.flat[col]
                date == OrigDate(last.flat)
                timeText == /\ v.k = "str"
                            /\ Len(v.s) >= 8
                            /\ v.s[3] = ":"
                            /\ v.s[6] = ":"
                isTs == /\ col \in DOMAIN last.colsP
                        /\ last.colsP[col] = Timestamp
            IN /\ last.ins[col] =
                    IF col # "timestamp" /\ isTs /\ timeText /\ date # <<>>
                    THEN StrV(SubSeq(date, 1, 10) \o <<" ">> \o v.s)
                    ELSE v
               /\ col \notin DOMAIN last.cols0 => last.ins[col] = v

\* 12:00:00 written on 2023-01-01 to a Timestamp column
C15_Witness ==
    /\ last.kind = "write"
    /\ last.stage = "done"
    /\ last.row = Row2("timestamp", T_ref, "a", StrV(S_time))
    /\ "a" \in DOMAIN last.cols0
    /\ last.cols0["a"] = Timestamp
    /\ last.ins["a"] = StrV(T_ref.date \o <<" ">> \o S_time)

----------------------------------------------------------------------------
(* Several goroutines in Write on one table: every statement Write sends to
   the store is one step *)

\* rows written at the same time: integers of different bands for column a,
\* and a row with the timestamp only
ConcRows ==
    {NewRow(T_now, Row1("a", IntV(v))) :
        v \in {I64Small(1), I64Small(300), I64_m40000}}
    \cup {NewRow(T_now, EmptyMap)}

\* no table, a table without column a, a table with a column a
ConcSchemas ==
    {EmptyMap, Row1("timestamp", Timestamp),
     Row2("timestamp", Timestamp, "a", Utinyint)}

ConcInit ==
    /\ schema \in ConcSchemas
    /\ nrows = 0
    /\ last = [kind |-> "none"]
    /\ left = [col \in DOMAIN schema |-> {}]
    /\ table = TableOf(<<>>)
    /\ wr = [p \in Writers |-> WriterIdle]
    /\ connections = EmptyMap
    /\ mutexW = NoProc
    /\ readers = {}
    /\ pc = [p \in Procs |-> "idle"]
    /\ arg = [p \in Procs |-> NoPath]
    /\ result = [p \in Procs |-> NoResult]
    /\ nextId = 1
    /\ closedW = {}
    /\ ncalls = 0
    /\ returned = {}
    /\ opens = [q \in Paths |-> 0]
    /\ deletes = [q \in Paths |-> 0]
    /\ attempts = [q \in Paths |-> 0]

\* the store after goroutine p sent the statements of st
W_Store(st, ins) ==
    /\ schema' = st.db
    /\ left' = LeftAfter(left, schema, st.db)
    /\ table' = TableOf(StoreApplyAll(table.rows, st.db, st.stmts, ins, 1))

\* Write is called: the length check
W_Call(p, row) ==
    /\ wr[p].pc = "idle"
    /\ wr' = [wr EXCEPT ![p] =
                [WriterIdle EXCEPT
                    !.pc = IF RowIsTrivial(row) THEN "done" ELSE "query",
                    !.row = row]]
    /\ UNCHANGED <<regVars, schema, nrows, last, left, table>>

\* getCurrentColumns, and flattenJsonMaps when the table has columns
W_Query(p) ==
    /\ wr[p].pc = "query"
    /\ LET cols == getCurrentColumns(schema)
       IN IF Cardinality(DOMAIN cols) = 0
          THEN wr' = [wr EXCEPT ![p].pc = "create"]
          ELSE \E flat \in FlattenSet(wr[p].row) :
                wr' = [wr EXCEPT ![p].pc = "promote", ![p].cols = cols,
                                 ![p].flat = flat, ![p].todo = DOMAIN flat]
    /\ UNCHANGED <<regVars, schema, nrows, last, left, table>>

\* ensureTableExists with no columns read: CREATE TABLE
W_Create(p) ==
    /\ wr[p].pc = "create"
    /\ LET e == ensureTableExists(schema, EmptyMap)
       IN /\ W_Store(e, EmptyMap)
          /\ IF e.err
             THEN wr' = [wr EXCEPT ![p].pc = "done", ![p].err = TRUE,
                                   ![p].stmts = wr[p].stmts \o e.stmts]
             ELSE \E flat \in FlattenSet(wr[p].row) :
                    wr' = [wr EXCEPT ![p].pc = "promote", ![p].cols = e.cols,
                                     ![p].flat = flat,
                                     ![p].todo = DOMAIN flat,
                                     ![p].stmts = wr[p].stmts \o e.stmts]
    /\ UNCHANGED <<regVars, nrows, last>>

\* one iteration of the range loop of promoteColumns, or its end
W_Promote(p) ==
    /\ wr[p].pc = "promote"
    /\ IF wr[p].todo = {}
       THEN /\ wr' = [wr EXCEPT ![p].pc = "add",
                                ![p].todo = DOMAIN wr[p].flat]
            /\ UNCHANGED <<schema, left, table>>
       ELSE \E col \in wr[p].todo :
            LET st == promoteColumnsStep(
                        [db |-> schema, cols |-> wr[p].cols, stmts |-> <<>>,
                         err |-> FALSE],
                        wr[p].flat, col)
            IN /\ W_Store(st, EmptyMap)
               /\ wr' = [wr EXCEPT
                            ![p].pc = IF st.err THEN "done" ELSE "promote",
                            ![p].err = st.err,
                            ![p].cols = st.cols,
                            ![p].todo = wr[p].todo \ {col},
                            ![p].stmts = wr[p].stmts \o st.stmts]
    /\ UNCHANGED <<regVars, nrows, last>>

\* one iteration of the range loop of addMissingColumns, or its end
W_Add(p) ==
    /\ wr[p].pc = "add"
    /\ IF wr[p].todo = {}
       THEN /\ wr' = [wr EXCEPT ![p].pc = "insert"]
            /\ UNCHANGED <<schema, left, table>>
       ELSE \E col \in wr[p].todo :
            LET st == addMissingColumnsStep(
                        [db |-> schema, stmts |-> <<>>, err |-> FALSE],
                        wr[p].cols, wr[p].flat, col)
            IN /\ W_Store(st, EmptyMap)
               /\ wr' = [wr EXCEPT
                            ![p].pc = IF st.err THEN "done" ELSE "add",
                            ![p].err = st.err,
                            ![p].todo = wr[p].todo \ {col},
                            ![p].stmts = wr[p].stmts \o st.stmts]
    /\ UNCHANGED <<regVars, nrows, last>>

\* preprocessRow and insertRow; Write returns
W_Insert(p) ==
    /\ wr[p].pc = "insert"
    /\ LET ins == preprocessRow(wr[p].flat, wr[p].cols)
           ok == StoreInsertOk(schema, ins)
       IN /\ W_Store([db |-> schema, stmts |-> <<InsertStmt(ok)>>], ins)
          /\ nrows' = IF ok THEN nrows + 1 ELSE nrows
          /\ wr' = [wr EXCEPT ![p].pc = "done", ![p].err = ~ok,
                              ![p].stmts = Append(wr[p].stmts, InsertStmt(ok))]
    /\ UNCHANGED <<regVars, last>>

ConcNext ==
    \E p \in Writers :
        \/ \E row \in ConcRows : W_Call(p, row)
        \/ W_Query(p)
        \/ W_Create(p)
        \/ W_Promote(p)
        \/ W_Add(p)
        \/ W_Insert(p)

SpecConc == ConcInit /\ [][ConcNext]_vars

----------------------------------------------------------------------------
(* Claims about concurrent Write calls *)

\* the columns goroutine p sent an ADD COLUMN for
AddsOf(p) ==
    {wr[p].stmts[i].col :
        i \in {j \in DOMAIN wr[p].stmts : wr[p].stmts[j].op = "add"}}

\* C12 (as stated): when two Write calls to the existing table both sent an
\* ADD COLUMN for the same column (both read the table before either added
\* it), both return success.
C12_AddColumnIdempotent ==
    \A p \in Writers, q \in Writers :
        (/\ p # q
         /\ wr[p].pc = "done"
         /\ wr[q].pc = "done"
         /\ AddsOf(p) \cap AddsOf(q) # {}) =>
            ~wr[p].err /\ ~wr[q].err

\* C13 (as stated): no step of interleaved Write calls changes an integer
\* column to a type whose range does not contain the range of its current
\* type, and no stored value of the column becomes NULL by the change.
C13_PromotionMonotonic ==
    [][table.tracked =>
        \A col \in DOMAIN schema :
            (/\ col \in DOMAIN schema'
             /\ schema'[col] # schema[col]
             /\ schema[col] \in IntegerTypes
             /\ schema'[col] \in IntegerTypes) =>
                /\ RangeWithin(schema[col], schema'[col])
                /\ \A r \in DOMAIN table.rows :
                    table.rows[r].cur[col] # NilV =>
                        table'.rows[r].cur[col] # NilV]_vars

====
